---------------------------- MODULE Spec2Model ----------------------------
(***************************************************************************)
(* Model of QuickCompareModule.generate_sequence_events                    *)
(* (src/quick_compare/quick_compare_module.py) and of the helpers it       *)
(* calls: the priority-ordered template scan, _create_sequence_event,      *)
(* _map_entity, the timestamp sort, _enrich_events_with_metadata and       *)
(* _parse_timestamp.                                                       *)
(*                                                                         *)
(* Python strings are sequences of one-character strings.  Python's None   *)
(* for a capture group that did not take part in a match is the record     *)
(* NoneGroup.  A regular expression is a record describing an alternation  *)
(* of literals (see re_search).                                            *)
(***************************************************************************)
EXTENDS Integers, Sequences, FiniteSets, TLC

(***************************************************************************)
(* Bounds of the model.                                                    *)
(***************************************************************************)
MaxRecords == 2

MaxTemplates == 2

\* the longest mapping template given to _map_entity, in fragments
MaxParts == 2

\* the most entries of the 'templates' array of a template file
MaxFileEntries == 2

\* the most log entries given to search_and_filter_logs
MaxSearchEntries == 2

\* the most calls of update_log_pattern in a row
MaxUpdates == 3

\* the most bytes in a log file
MaxBytes == 3

\* the largest chunk_size of an InputModule
MaxChunkSize == 3

\* the bytes a text file object decodes at a time (8192 in CPython)
DecodeBlock == 2

\* the most events passed to export_sequence_diagrams
MaxDiagramEvents == 3

(***************************************************************************)
(* Characters and Python string primitives.                                *)
(***************************************************************************)
DigitChars == {"0", "1", "2", "3", "4", "5", "6", "7", "8", "9"}

LetterChars ==
    {"A", "B", "C", "D", "E", "F", "G", "H", "I", "J", "K", "L", "M",
     "N", "O", "P", "Q", "R", "S", "T", "U", "V", "W", "X", "Y", "Z",
     "a", "b", "c", "d", "e", "f", "g", "h", "i", "j", "k", "l", "m",
     "n", "o", "p", "q", "r", "s", "t", "u", "v", "w", "x", "y", "z"}

\* \s of Python's re for the characters of the model
WhitespaceChars == {" ", "\n"}

\* \w of Python's re on str: alphanumerics and the underscore
WordChars == LetterChars \cup DigitChars \cup {"_"}

\* ord(c): the code point, which Python compares strings by
Ord(c) ==
    CASE c = " " -> 32
      [] c = "!" -> 33
      [] c = "-" -> 45
      [] c = "." -> 46
      [] c = "0" -> 48
      [] c = "1" -> 49
      [] c = "2" -> 50
      [] c = "3" -> 51
      [] c = "4" -> 52
      [] c = "5" -> 53
      [] c = "6" -> 54
      [] c = "7" -> 55
      [] c = "8" -> 56
      [] c = "9" -> 57
      [] c = ":" -> 58
      [] c = "C" -> 67
      [] c = "E" -> 69
      [] c = "N" -> 78
      [] c = "S" -> 83
      [] c = "U" -> 85
      [] c = "_" -> 95
      [] c = "a" -> 97
      [] c = "b" -> 98
      [] c = "c" -> 99
      [] c = "e" -> 101
      [] c = "g" -> 103
      [] c = "i" -> 105
      [] c = "k" -> 107
      [] c = "l" -> 108
      [] c = "m" -> 109
      [] c = "n" -> 110
      [] c = "o" -> 111
      [] c = "p" -> 112
      [] c = "r" -> 114
      [] c = "s" -> 115
      [] c = "t" -> 116
      [] c = "u" -> 117
      [] c = "v" -> 118
      [] c = "w" -> 119
      [] c = "y" -> 121
      [] c = "{" -> 123
      [] c = "}" -> 125

DigitVal(c) == Ord(c) - 48

\* s < t for Python str: lexicographic by code point, a proper prefix is smaller
RECURSIVE StrLess(_, _)
StrLess(s, t) ==
    IF t = <<>> THEN FALSE
    ELSE IF s = <<>> THEN TRUE
    ELSE IF Head(s) = Head(t) THEN StrLess(Tail(s), Tail(t))
    ELSE Ord(Head(s)) < Ord(Head(t))

StrLeq(s, t) == ~StrLess(t, s)

\* s[p - 1 : p - 1 + len(w)] == w, with p a 1-based position
MatchesAt(s, w, p) ==
    /\ p + Len(w) - 1 <= Len(s)
    /\ \A k \in 1..Len(w) : s[p + k - 1] = w[k]

\* s.replace(old, new) for a non-empty old: every non-overlapping
\* occurrence, scanning from the left
RECURSIVE StrReplace(_, _, _)
StrReplace(s, old, new) ==
    IF s = <<>> THEN <<>>
    ELSE IF MatchesAt(s, old, 1)
         THEN new \o StrReplace(SubSeq(s, Len(old) + 1, Len(s)), old, new)
         ELSE <<Head(s)>> \o StrReplace(Tail(s), old, new)

\* s.strip(): leading and trailing whitespace removed
RECURSIVE LStrip(_)
LStrip(s) ==
    IF s # <<>> /\ Head(s) \in WhitespaceChars THEN LStrip(Tail(s)) ELSE s

RECURSIVE RStrip(_)
RStrip(s) ==
    IF s # <<>> /\ s[Len(s)] \in WhitespaceChars
    THEN RStrip(SubSeq(s, 1, Len(s) - 1))
    ELSE s

Strip(s) == RStrip(LStrip(s))

(***************************************************************************)
(* Regular expressions.  A pattern is                                      *)
(*   [compiles |-> BOOLEAN, capture |-> BOOLEAN, alts |-> literals]        *)
(* and stands for the Python pattern  w1|w2|...  (capture FALSE) or        *)
(* (w1)|(w2)|...  (capture TRUE); a pattern with compiles FALSE is a       *)
(* string re.compile rejects, such as "(".                                 *)
(***************************************************************************)
NoneGroup == [none |-> TRUE, s |-> <<>>]

StrGroup(w) == [none |-> FALSE, s |-> w]

\* the alternatives of the pattern that match at position p of s
AltsAt(pattern, s, p) ==
    {k \in 1..Len(pattern.alts) : MatchesAt(s, pattern.alts[k], p)}

Min(S) == CHOOSE x \in S : \A y \in S : x <= y

\* re.search(pattern, s) for a pattern that compiles: the leftmost position
\* where an alternative matches, and there the first alternative that does;
\* match.groups() has None for every group that took no part
re_search(pattern, s) ==
    LET positions == {p \in 1..(Len(s) + 1) : AltsAt(pattern, s, p) # {}}
    IN  IF positions = {}
        THEN [matched |-> FALSE, groups |-> <<>>]
        ELSE LET alt == Min(AltsAt(pattern, s, Min(positions)))
             IN  [matched |-> TRUE,
                  groups  |-> IF pattern.capture
                              THEN [k \in 1..Len(pattern.alts) |->
                                      IF k = alt THEN StrGroup(pattern.alts[k])
                                                 ELSE NoneGroup]
                              ELSE <<>>]

(***************************************************************************)
(* _map_entity                                                             *)
(***************************************************************************)
Unknown == <<"U", "n", "k", "n", "o", "w", "n">>

\* str(group): the text of a group, "None" for None
PyStr(group) == IF group.none THEN <<"N", "o", "n", "e">> ELSE group.s

\* f"{{group{n}}}" for n < 10
GroupPlaceholder(n) ==
    <<"{", "g", "r", "o", "u", "p">>
        \o <<CHOOSE d \in DigitChars : DigitVal(d) = n>> \o <<"}">>

\* lines 130-133: the {groupN} pass over groups[from..]
RECURSIVE ReplaceGroups(_, _, _)
ReplaceGroups(result, groups, n) ==
    IF n > Len(groups) THEN result
    ELSE ReplaceGroups(StrReplace(result, GroupPlaceholder(n), PyStr(groups[n])),
                       groups, n + 1)

\* groups[n - 1] if len(groups) > n - 1 else ""
AliasValue(groups, n) == IF Len(groups) >= n THEN groups[n] ELSE StrGroup(<<>>)

\* lines 136-139: str.replace raises TypeError when its second argument is
\* None, whether or not the placeholder occurs
AliasRaises(groups) == \E n \in 1..4 : AliasValue(groups, n).none

ReplaceAliases(result, groups) ==
    LET r1 == StrReplace(result,
                  <<"{", "t", "i", "m", "e", "s", "t", "a", "m", "p", "}">>,
                  AliasValue(groups, 1).s)
        r2 == StrReplace(r1, <<"{", "l", "e", "v", "e", "l", "}">>,
                  AliasValue(groups, 2).s)
        r3 == StrReplace(r2, <<"{", "t", "a", "g", "}">>,
                  AliasValue(groups, 3).s)
    IN  StrReplace(r3, <<"{", "m", "e", "s", "s", "a", "g", "e", "}">>,
                  AliasValue(groups, 4).s)

\* a removal that takes the underscores too
RemoveSpecial_NoUnderscore(s) ==
    SelectSeq(s, LAMBDA c : c \in LetterChars \cup DigitChars
                                   \cup WhitespaceChars \cup {"-"})

\* re.sub(r'[^\w\s-]', '', s)
RemoveSpecial(s) ==
    SelectSeq(s, LAMBDA c : c \in WordChars \cup WhitespaceChars \cup {"-"})

\* a substitution that leaves the whitespace where it is
CollapseWhitespace_Kept(s) == s

\* re.sub(r'\s+', '_', s): every maximal run of whitespace becomes one "_"
RECURSIVE CollapseWhitespace(_)
CollapseWhitespace(s) ==
    IF s = <<>> THEN <<>>
    ELSE IF Head(s) \in WhitespaceChars
         THEN <<"_">> \o CollapseWhitespace(LStrip(s))
         ELSE <<Head(s)>> \o CollapseWhitespace(Tail(s))

Sanitize(s) == CollapseWhitespace(Strip(RemoveSpecial(s)))

\* a mapper without the fallback: an empty mapping or an empty result is
\* returned as the empty string
map_entity_EmptyResult(mapping, groups) ==
    IF mapping = <<>> THEN [raised |-> FALSE, value |-> <<>>]
    ELSE IF AliasRaises(groups) THEN [raised |-> TRUE, value |-> <<>>]
    ELSE [raised |-> FALSE,
          value  |-> Sanitize(ReplaceAliases(
                         ReplaceGroups(mapping, groups, 1), groups))]

\* _map_entity(mapping, groups): the value returned, or raised TRUE when the
\* call ends with an exception
map_entity(mapping, groups) ==
    IF mapping = <<>> THEN [raised |-> FALSE, value |-> Unknown]
    ELSE IF AliasRaises(groups) THEN [raised |-> TRUE, value |-> <<>>]
    ELSE LET result == Sanitize(ReplaceAliases(
                           ReplaceGroups(mapping, groups, 1), groups))
         IN  [raised |-> FALSE,
              value  |-> IF result = <<>> THEN Unknown ELSE result]

(***************************************************************************)
(* _parse_timestamp.  A datetime of the current year is                    *)
(*   [sec |-> whole seconds since the start of the year, usec |-> 0..999999]*)
(* and None is NoTime.                                                     *)
(***************************************************************************)
NoTime == [ok |-> FALSE, sec |-> 0, usec |-> 0]

IsLeapYear(y) == (y % 4 = 0 /\ y % 100 # 0) \/ y % 400 = 0

DaysInMonth(m, y) ==
    IF m = 2 THEN (IF IsLeapYear(y) THEN 29 ELSE 28)
    ELSE IF m \in {4, 6, 9, 11} THEN 30 ELSE 31

RECURSIVE DaysBefore(_, _)
DaysBefore(m, y) ==
    IF m <= 1 THEN 0 ELSE DaysBefore(m - 1, y) + DaysInMonth(m - 1, y)

AllDigits(s) == \A k \in 1..Len(s) : s[k] \in DigitChars

\* int(s) for a string of digits
RECURSIVE ToInt(_)
ToInt(s) ==
    IF s = <<>> THEN 0
    ELSE 10 * ToInt(SubSeq(s, 1, Len(s) - 1)) + DigitVal(s[Len(s)])

RECURSIVE Pow10(_)
Pow10(n) == IF n = 0 THEN 1 ELSE 10 * Pow10(n - 1)

\* the length of the run of whitespace that starts at position p of s
RECURSIVE WhitespaceRun(_, _)
WhitespaceRun(s, p) ==
    IF p <= Len(s) /\ s[p] \in WhitespaceChars
    THEN 1 + WhitespaceRun(s, p + 1)
    ELSE 0

\* s[p], or a character that is in no class when p is past the end
CharAt(s, p) == IF p \in 1..Len(s) THEN s[p] ELSE "!"

\* line 168: re.match(r'\d{2}-\d{2}\s+\d{2}:\d{2}:\d{2}\.\d{3}', s), a
\* match of a prefix of s; q is where the time of day starts
TimestampPrefix(s) ==
    LET q == 6 + WhitespaceRun(s, 6)
    IN  /\ CharAt(s, 1) \in DigitChars /\ CharAt(s, 2) \in DigitChars
        /\ CharAt(s, 3) = "-"
        /\ CharAt(s, 4) \in DigitChars /\ CharAt(s, 5) \in DigitChars
        /\ q > 6
        /\ CharAt(s, q) \in DigitChars /\ CharAt(s, q + 1) \in DigitChars
        /\ CharAt(s, q + 2) = ":"
        /\ CharAt(s, q + 3) \in DigitChars /\ CharAt(s, q + 4) \in DigitChars
        /\ CharAt(s, q + 5) = ":"
        /\ CharAt(s, q + 6) \in DigitChars /\ CharAt(s, q + 7) \in DigitChars
        /\ CharAt(s, q + 8) = "."
        /\ CharAt(s, q + 9) \in DigitChars /\ CharAt(s, q + 10) \in DigitChars
        /\ CharAt(s, q + 11) \in DigitChars

\* lines 170-172: datetime.strptime(f"{current_year}-{s}",
\* "%Y-%m-%d %H:%M:%S.%f") for an s that passed line 168: %f takes one to
\* six digits and nothing may follow it; the fields must name a date and a
\* time of day that exist in current_year
parse_timestamp(s, current_year) ==
    IF ~TimestampPrefix(s) THEN NoTime
    ELSE LET q      == 6 + WhitespaceRun(s, 6)
             month  == ToInt(SubSeq(s, 1, 2))
             day    == ToInt(SubSeq(s, 4, 5))
             hour   == ToInt(SubSeq(s, q, q + 1))
             minute == ToInt(SubSeq(s, q + 3, q + 4))
             second == ToInt(SubSeq(s, q + 6, q + 7))
             frac   == SubSeq(s, q + 9, Len(s))
         IN  IF /\ AllDigits(frac) /\ Len(frac) <= 6
                /\ month \in 1..12
                /\ day \in 1..DaysInMonth(month, current_year)
                /\ hour <= 23 /\ minute <= 59 /\ second <= 59
             THEN [ok   |-> TRUE,
                   sec  |-> (((DaysBefore(month, current_year) + day - 1) * 24
                               + hour) * 60 + minute) * 60 + second,
                   usec |-> ToInt(frac) * Pow10(6 - Len(frac))]
             ELSE NoTime

\* a difference that is never negative
TimeDelta_Clamped(curr, prev) ==
    IF curr.sec < prev.sec \/ (curr.sec = prev.sec /\ curr.usec < prev.usec)
    THEN [seconds |-> 0, microseconds |-> 0]
    ELSE IF curr.usec >= prev.usec
         THEN [seconds |-> curr.sec - prev.sec,
               microseconds |-> curr.usec - prev.usec]
         ELSE [seconds |-> curr.sec - prev.sec - 1,
               microseconds |-> curr.usec - prev.usec + 1000000]

\* curr - prev as a timedelta: total_seconds() is seconds + microseconds/10^6
\* with 0 <= microseconds < 10^6, and is negative exactly when seconds < 0
TimeDelta(curr, prev) ==
    IF curr.usec >= prev.usec
    THEN [seconds |-> curr.sec - prev.sec,
          microseconds |-> curr.usec - prev.usec]
    ELSE [seconds |-> curr.sec - prev.sec - 1,
          microseconds |-> curr.usec - prev.usec + 1000000]

(***************************************************************************)
(* The inputs the model draws from.                                        *)
(***************************************************************************)
Sep17 == <<"0", "9", "-", "1", "7">>

\* "09-17 10:30:15.000"
TsA == Sep17 \o <<" ", "1", "0", ":", "3", "0", ":", "1", "5", ".", "0", "0", "0">>

\* "09-17 10:30:15.500"
TsB == Sep17 \o <<" ", "1", "0", ":", "3", "0", ":", "1", "5", ".", "5", "0", "0">>

\* "09-17  11:00:00.000": two blanks, so it sorts before TsA and is later
TsC == Sep17 \o <<" ", " ", "1", "1", ":", "0", "0", ":", "0", "0", ".", "0", "0", "0">>

\* "09-17 10:30:15": no milliseconds, line 168 rejects it
TsNoMs == Sep17 \o <<" ", "1", "0", ":", "3", "0", ":", "1", "5">>

\* "02-29 23:59:59.750": a date only a leap year has
TsFeb == <<"0", "2", "-", "2", "9", " ", "2", "3", ":", "5", "9", ":", "5", "9",
           ".", "7", "5", "0">>

\* the years datetime.now().year may give
CurrentYears == {2026, 2028}

\* LogEntry(timestamp, level, tag, message, ...)
LogEntry(ts, level, tag, message) ==
    [timestamp |-> ts, level |-> level, tag |-> tag, message |-> message]

LogEntries ==
    { LogEntry(TsA, "I", "Cam", <<"a">>),
      LogEntry(TsA, "D", "Hal", <<"b">>),
      LogEntry(TsB, "W", "Cam", <<"c">>),
      LogEntry(TsC, "I", "Cam", <<"a">>),
      LogEntry(TsNoMs, "E", "Hal", <<"a", "b">>),
      LogEntry(TsFeb, "I", "Sys", <<"b">>) }

\* Template(name, pattern, sequence_mapping, priority)
Template(name, pattern, mapping, priority) ==
    [name |-> name, pattern |-> pattern, sequence_mapping |-> mapping,
     priority |-> priority]

Regex(capture, alts) == [compiles |-> TRUE, capture |-> capture, alts |-> alts]

\* a pattern such as "(" that re.compile rejects
BadRegex == [compiles |-> FALSE, capture |-> FALSE, alts |-> <<>>]

Templates ==
    { \* pattern "(a)"
      Template("High", Regex(TRUE, << <<"a">> >>),
               [from |-> <<"S", "y", "s">>,
                to |-> <<"C", "a", "m", " ", "{", "g", "r", "o", "u", "p", "1", "}", "!">>,
                message |-> <<"{", "t", "i", "m", "e", "s", "t", "a", "m", "p", "}">>], 1),
      \* pattern "", which matches every message
      Template("Low", Regex(FALSE, << <<>> >>),
               [from |-> <<>>], 5),
      \* pattern "(a)|(b)"
      Template("Opt", Regex(TRUE, << <<"a">>, <<"b">> >>),
               [from |-> <<"{", "g", "r", "o", "u", "p", "2", "}">>,
                to |-> <<"C", "a", "m">>,
                message |-> <<"o", "k">>], 1),
      \* pattern "b"
      Template("Same", Regex(FALSE, << <<"b">> >>),
               [from |-> <<"S", "y", "s">>, to |-> <<"_", "1">>,
                message |-> <<"!">>], 1),
      \* pattern "("
      Template("Bad", BadRegex,
               [from |-> <<"S", "y", "s">>, to |-> <<"C", "a", "m">>,
                message |-> <<"o", "k">>], 3) }

\* the sequences over S of length at most n
SeqsUpTo(S, n) == UNION {[1..k -> S] : k \in 0..n}

(***************************************************************************)
(* The template scan of generate_sequence_events and                       *)
(* _create_sequence_event.                                                 *)
(***************************************************************************)
\* d.get(key, default)
DictGet(d, key, default) == IF key \in DOMAIN d THEN d[key] ELSE default

\* list.sort / sorted with a key: a stable sort.  leq[x, y] says that the
\* key of element x is <= the key of element y; the result is the order of
\* the element indices, built by insertion after every element not greater
\* a sort that is not stable: x goes before the elements with an equal key
RECURSIVE InsertSorted_Unstable(_, _, _)
InsertSorted_Unstable(order, x, leq) ==
    IF order = <<>> THEN <<x>>
    ELSE IF ~leq[x, order[Len(order)]] THEN Append(order, x)
    ELSE Append(InsertSorted_Unstable(SubSeq(order, 1, Len(order) - 1), x, leq),
                order[Len(order)])

RECURSIVE InsertSorted(_, _, _)
InsertSorted(order, x, leq) ==
    IF order = <<>> THEN <<x>>
    ELSE IF leq[order[Len(order)], x] THEN Append(order, x)
    ELSE Append(InsertSorted(SubSeq(order, 1, Len(order) - 1), x, leq),
                order[Len(order)])

RECURSIVE StableOrder(_, _)
StableOrder(n, leq) ==
    IF n = 0 THEN <<>> ELSE InsertSorted(StableOrder(n - 1, leq), n, leq)

\* templates.sort(key=...): the caller's list is put in priority order
ArgumentAfterSorted_InPlace(tpls) ==
    LET leq   == [x, y \in 1..Len(tpls) |-> tpls[x].priority <= tpls[y].priority]
        order == StableOrder(Len(tpls), leq)
    IN  [k \in 1..Len(tpls) |-> tpls[order[k]]]

\* line 55: the list given to sorted() after the call; sorted() builds a new
\* list and leaves its argument as it was
ArgumentAfterSorted(tpls) == tpls

\* line 55: sorted(templates, key=lambda t: t.priority)
SortByPriority(tpls) ==
    LET leq   == [x, y \in 1..Len(tpls) |-> tpls[x].priority <= tpls[y].priority]
        order == StableOrder(Len(tpls), leq)
    IN  [k \in 1..Len(tpls) |-> tpls[order[k]]]

\* the events left in the order they were appended
SortByTimestamp_NoSort(events) == events

\* a sort that orders the timestamps and leaves the other fields where they
\* were
SortByTimestamp_KeysOnly(events) ==
    LET leq   == [x, y \in 1..Len(events) |->
                      StrLeq(events[x].timestamp, events[y].timestamp)]
        order == StableOrder(Len(events), leq)
    IN  [k \in 1..Len(events) |->
            [events[k] EXCEPT !.timestamp = events[order[k]].timestamp]]

\* line 82: sequence_events.sort(key=lambda e: e.timestamp)
SortByTimestamp(events) ==
    LET leq   == [x, y \in 1..Len(events) |->
                      StrLeq(events[x].timestamp, events[y].timestamp)]
        order == StableOrder(Len(events), leq)
    IN  [k \in 1..Len(events) |-> events[order[k]]]

\* a metadata dict without the captured groups
event_metadata_NoGroups(log_entry, template, groups) ==
    [template_name     |-> template.name,
     template_priority |-> template.priority,
     log_level         |-> log_entry.level,
     log_tag           |-> log_entry.tag]

\* lines 100-107: the metadata dict of a new event
event_metadata(log_entry, template, groups) ==
    [template_name     |-> template.name,
     template_priority |-> template.priority,
     log_level         |-> log_entry.level,
     log_tag           |-> log_entry.tag,
     groups            |-> groups]

\* _create_sequence_event: the event, or ok FALSE for the None returned
\* after an exception; log_entry is the index of the record in the input
\* list and stands for the reference the event keeps
create_sequence_event(log_entry, index, template, groups) ==
    LET mapping     == template.sequence_mapping
        from_entity == map_entity(DictGet(mapping, "from", Unknown), groups)
        to_entity   == map_entity(DictGet(mapping, "to", Unknown), groups)
        message     == map_entity(DictGet(mapping, "message",
                                          <<"E", "v", "e", "n", "t">>), groups)
    IN  IF from_entity.raised \/ to_entity.raised \/ message.raised
        THEN [ok |-> FALSE]
        ELSE [ok    |-> TRUE,
              event |-> [timestamp   |-> log_entry.timestamp,
                         from_entity |-> from_entity.value,
                         to_entity   |-> to_entity.value,
                         message     |-> message.value,
                         event_type  |-> template.name,
                         metadata    |-> event_metadata(log_entry, template, groups),
                         log_entry   |-> index]]

\* a scan that ends with an event of the last template when none matched
RECURSIVE ScanTemplates_FallbackEvent(_, _, _, _, _)
ScanTemplates_FallbackEvent(log_entry, index, sorted, k, errors) ==
    IF k > Len(sorted)
    THEN IF sorted = <<>> \/ ~sorted[Len(sorted)].pattern.compiles
         THEN [kind |-> "none", errors |-> errors]
         ELSE LET made == create_sequence_event(log_entry, index,
                                                sorted[Len(sorted)], <<>>)
              IN  [kind |-> "event", event |-> made.event, errors |-> errors]
    ELSE IF ~sorted[k].pattern.compiles
         THEN [kind |-> "raise", errors |-> errors]
    ELSE LET match == re_search(sorted[k].pattern, log_entry.message)
             made  == create_sequence_event(log_entry, index, sorted[k],
                                            match.groups)
         IN  IF ~match.matched
             THEN ScanTemplates_FallbackEvent(log_entry, index, sorted, k + 1,
                                              errors)
             ELSE IF made.ok
                  THEN [kind |-> "event", event |-> made.event,
                        errors |-> errors]
                  ELSE ScanTemplates_FallbackEvent(log_entry, index, sorted,
                                                   k + 1, errors + 1)

\* lines 55-73 for one log entry, from the k-th template of the sorted list
\* on: "event" with the event of the first template that matches and whose
\* event is built, "none" when the list ends, "raise" when re.search meets a
\* pattern that does not compile; errors counts the log_error calls
RECURSIVE ScanTemplates(_, _, _, _, _)
ScanTemplates(log_entry, index, sorted, k, errors) ==
    IF k > Len(sorted) THEN [kind |-> "none", errors |-> errors]
    ELSE IF ~sorted[k].pattern.compiles
         THEN [kind |-> "raise", errors |-> errors]
    ELSE LET match == re_search(sorted[k].pattern, log_entry.message)
             made  == create_sequence_event(log_entry, index, sorted[k],
                                            match.groups)
         IN  IF ~match.matched
             THEN ScanTemplates(log_entry, index, sorted, k + 1, errors)
             ELSE IF made.ok
                  THEN [kind |-> "event", event |-> made.event,
                        errors |-> errors]
                  ELSE ScanTemplates(log_entry, index, sorted, k + 1,
                                     errors + 1)

\* an entry is put on the unmatched list whether or not it gave an event
tally_AlwaysUnmatched(events, unmatched, index, scan) ==
    [events    |-> IF scan.kind = "event" THEN Append(events, scan.event)
                   ELSE events,
     unmatched |-> Append(unmatched, index)]

\* lines 67-78: what one log entry adds to sequence_events and to
\* unmatched_entries, given the outcome of its template scan
tally(events, unmatched, index, scan) ==
    IF scan.kind = "event"
    THEN [events |-> Append(events, scan.event), unmatched |-> unmatched]
    ELSE [events |-> events, unmatched |-> Append(unmatched, index)]

(***************************************************************************)
(* _enrich_events_with_metadata                                            *)
(***************************************************************************)
\* d[key] = value on a dict
DictSet(d, key, value) ==
    [x \in DOMAIN d \cup {key} |-> IF x = key THEN value ELSE d[x]]

\* numbering from 0
AddSequenceNumbers_ZeroBased(events) ==
    [n \in 1..Len(events) |->
        [events[n] EXCEPT !.metadata = DictSet(@, "sequence_number", n - 1)]]

\* lines 150-151
AddSequenceNumbers(events) ==
    [n \in 1..Len(events) |->
        [events[n] EXCEPT !.metadata = DictSet(@, "sequence_number", n)]]

\* lines 154-160
AddTiming(events, current_year) ==
    [n \in 1..Len(events) |->
        IF n = 1 THEN events[n]
        ELSE LET prev_time == parse_timestamp(events[n - 1].timestamp, current_year)
                 curr_time == parse_timestamp(events[n].timestamp, current_year)
             IN  IF prev_time.ok /\ curr_time.ok
                 THEN [events[n] EXCEPT !.metadata =
                          DictSet(@, "time_since_previous",
                                  TimeDelta(curr_time, prev_time))]
                 ELSE events[n]]

enrich_events_with_metadata(events, current_year) ==
    AddTiming(AddSequenceNumbers(events), current_year)

(***************************************************************************)
(* generate_sequence_events as a state machine: a call, one step per log   *)
(* entry, then the sort, the enrichment and the return.                    *)
(***************************************************************************)
VARIABLES
    pc,                 \* "idle", "scan", "done", or "raised" (an exception left the call)
    log_entries,        \* argument: the log entries
    templates,          \* argument: the templates
    next_entry,         \* position of the for loop of line 51
    sequence_events,    \* line 46
    unmatched_entries,  \* line 47, as indices into log_entries
    error_log,          \* number of log_error calls of this call
    result,             \* the list returned
    now_year,           \* the value of datetime.now().year read by the call, 0 before
    previous            \* what an earlier call with the same arguments returned

\* one call of _map_entity
VARIABLES
    entity_pc,          \* "idle", "start", "aliases", "sanitize", "returned" or "raised"
    entity_mapping,     \* argument: the mapping template string
    entity_groups,      \* argument: the captured groups
    entity_result       \* the local variable result, at the end the value returned

\* one call of TemplateSequenceModule.load_template_configuration
VARIABLES
    loader_pc,          \* "idle", "start" or "returned"
    template_file,      \* the file at template_path
    self_templates,     \* self.templates
    returned            \* the list the call returned

\* a ReadLogModule object and one call of search_and_filter_logs on it
VARIABLES
    log_pattern,        \* self.log_pattern
    compiled_pattern,   \* self.compiled_pattern
    pattern_updates,    \* the calls of update_log_pattern so far: argument and value returned
    search_pc,          \* "idle", "start" or "returned"
    search_entries,     \* argument log_entries
    search_criteria,    \* arguments keyword, tag and level
    filtered_entries    \* the list returned

\* a file, an InputModule object and the calls made on it for that file
VARIABLES
    log_file,           \* what is at file_path
    chunk_size,         \* self.chunk_size
    log_outcome,        \* how read_log_file(file_path) ended
    normal_outcome,     \* how _read_file_normal(file_path) ended
    chunked_outcome,    \* how _read_file_chunked(file_path) ended
    validation          \* what validate_business_rules(file_path) returned

\* one call of export_sequence_diagrams
VARIABLES
    diagram_pc,         \* "idle", "start" or "returned"
    diagram_events,     \* argument sequence_events
    overview_content,   \* the lines of the overview diagram
    detailed_content    \* the lines of the detailed diagram

generate_vars == <<pc, log_entries, templates, next_entry, sequence_events,
                   unmatched_entries, error_log, result, now_year, previous>>

\* no earlier call is remembered
NoCall == [called |-> FALSE, result |-> <<>>, year |-> 0]

entity_vars == <<entity_pc, entity_mapping, entity_groups, entity_result>>

loader_vars == <<loader_pc, template_file, self_templates, returned>>

read_log_vars == <<log_pattern, compiled_pattern, pattern_updates, search_pc,
                   search_entries, search_criteria, filtered_entries>>

input_vars == <<log_file, chunk_size, log_outcome, normal_outcome, chunked_outcome,
                validation>>

diagram_vars == <<diagram_pc, diagram_events, overview_content, detailed_content>>

vars == <<generate_vars, entity_vars, loader_vars, read_log_vars, input_vars,
          diagram_vars>>

\* what a step of one function leaves alone: the variables of the others
outside_generate == <<entity_vars, loader_vars, read_log_vars, input_vars, diagram_vars>>

outside_entity == <<generate_vars, loader_vars, read_log_vars, input_vars, diagram_vars>>

outside_loader == <<generate_vars, entity_vars, read_log_vars, input_vars, diagram_vars>>

outside_read_log == <<generate_vars, entity_vars, loader_vars, input_vars, diagram_vars>>

outside_input == <<generate_vars, entity_vars, loader_vars, read_log_vars, diagram_vars>>

outside_diagram == <<generate_vars, entity_vars, loader_vars, read_log_vars, input_vars>>

\* a file that does not exist
NoFile ==
    [exists |-> FALSE, valid_json |-> FALSE, has_templates |-> FALSE,
     kind |-> "none", items |-> <<>>]

\* no call of load_template_configuration is under observation; line 26
\* has set self.templates to []
LoaderIdle ==
    /\ loader_pc = "idle"
    /\ template_file = NoFile
    /\ self_templates = <<>>
    /\ returned = <<>>

\* no call of _map_entity is under observation
EntityIdle ==
    /\ entity_pc = "idle"
    /\ entity_mapping = <<>>
    /\ entity_groups = <<>>
    /\ entity_result = <<>>

\* no call of generate_sequence_events is under way
GenerateIdle ==
    /\ pc = "idle"
    /\ log_entries = <<>>
    /\ templates = <<>>
    /\ next_entry = 1
    /\ sequence_events = <<>>
    /\ unmatched_entries = <<>>
    /\ error_log = 0
    /\ result = <<>>
    /\ now_year = 0
    /\ previous = NoCall

\* an argument that may be None
None(v) == [none |-> TRUE, v |-> v]

Some(v) == [none |-> FALSE, v |-> v]

\* _get_default_android_pattern, as the text of the pattern
DefaultAndroidPattern ==
    "^(\\d{2}-\\d{2}\\s+\\d{2}:\\d{2}:\\d{2}\\.\\d{3})\\s+(\\w+)\\s+(\\w+):\\s*(.*)$"

\* re.compile(pattern) of a pattern that compiles: the pattern object
re_compile(pattern) == [pattern |-> pattern]

\* lines 24-29: the module after construction with the default pattern
ReadLogConstructed ==
    /\ log_pattern = DefaultAndroidPattern
    /\ compiled_pattern = re_compile(DefaultAndroidPattern)
    /\ pattern_updates = <<>>

\* no call of search_and_filter_logs is under observation
SearchIdle ==
    /\ search_pc = "idle"
    /\ search_entries = <<>>
    /\ search_criteria = [keyword |-> None(<<>>), tag |-> None(""),
                           level |-> None("V")]
    /\ filtered_entries = <<>>

ReadLogIdle == ReadLogConstructed /\ SearchIdle

\* a path where there is nothing
MissingFile == [kind |-> "missing", readable |-> FALSE, suffix |-> "", content |-> <<>>]

\* a method that was not called
NotCalled == [called |-> FALSE, raised |-> "", lines |-> <<>>, content_read |-> FALSE]

NotValidated == [called |-> FALSE, valid |-> TRUE, warnings |-> <<>>, errors |-> <<>>]

\* no InputModule call is under observation
InputIdle ==
    /\ log_file = MissingFile
    /\ chunk_size = 1
    /\ log_outcome = NotCalled
    /\ normal_outcome = NotCalled
    /\ chunked_outcome = NotCalled
    /\ validation = NotValidated

\* no call of export_sequence_diagrams is under observation
DiagramIdle ==
    /\ diagram_pc = "idle"
    /\ diagram_events = <<>>
    /\ overview_content = <<>>
    /\ detailed_content = <<>>

\* nothing but generate_sequence_events is under observation
OutsideGenerateIdle ==
    EntityIdle /\ LoaderIdle /\ ReadLogIdle /\ InputIdle /\ DiagramIdle

\* nothing but _map_entity is under observation
OutsideEntityIdle ==
    GenerateIdle /\ LoaderIdle /\ ReadLogIdle /\ InputIdle /\ DiagramIdle

\* nothing but load_template_configuration is under observation
OutsideLoaderIdle ==
    GenerateIdle /\ EntityIdle /\ ReadLogIdle /\ InputIdle /\ DiagramIdle

\* nothing but the ReadLogModule is under observation
OutsideReadLogIdle ==
    GenerateIdle /\ EntityIdle /\ LoaderIdle /\ InputIdle /\ DiagramIdle

\* nothing but the InputModule is under observation
OutsideInputIdle ==
    GenerateIdle /\ EntityIdle /\ LoaderIdle /\ ReadLogIdle /\ DiagramIdle

\* nothing but export_sequence_diagrams is under observation
OutsideDiagramIdle ==
    GenerateIdle /\ EntityIdle /\ LoaderIdle /\ ReadLogIdle /\ InputIdle

Init ==
    /\ OutsideGenerateIdle
    /\ GenerateIdle

\* lines 44-47
Call ==
    /\ pc = "idle"
    /\ \E entries \in SeqsUpTo(LogEntries, MaxRecords),
          tpls \in SeqsUpTo(Templates, MaxTemplates) :
            /\ log_entries' = entries
            /\ templates' = tpls
    /\ pc' = "scan"
    /\ next_entry' = 1
    /\ sequence_events' = <<>>
    /\ unmatched_entries' = <<>>
    /\ error_log' = 0
    /\ result' = <<>>
    /\ now_year' = 0
    /\ UNCHANGED previous
    /\ UNCHANGED outside_generate

\* lines 51-78, one iteration of the outer loop
ProcessEntry ==
    /\ pc = "scan"
    /\ next_entry <= Len(log_entries)
    /\ LET scan == ScanTemplates(log_entries[next_entry], next_entry,
                                 SortByPriority(templates), 1, 0)
           new  == tally(sequence_events, unmatched_entries, next_entry, scan)
       IN  /\ error_log' = error_log + scan.errors
           /\ IF scan.kind = "raise"
              THEN /\ pc' = "raised"
                   /\ UNCHANGED <<next_entry, sequence_events, unmatched_entries>>
              ELSE /\ pc' = "scan"
                   /\ next_entry' = next_entry + 1
                   /\ sequence_events' = new.events
                   /\ unmatched_entries' = new.unmatched
    /\ templates' = ArgumentAfterSorted(templates)
    /\ UNCHANGED <<log_entries, result, now_year, previous>>
    /\ UNCHANGED outside_generate

\* lines 82-90: sort, enrich, return
CollectAndReturn ==
    /\ pc = "scan"
    /\ next_entry > Len(log_entries)
    /\ \E current_year \in CurrentYears :
          /\ now_year' = current_year
          /\ result' = enrich_events_with_metadata(
                           SortByTimestamp(sequence_events), current_year)
    /\ sequence_events' = result'
    /\ pc' = "done"
    /\ UNCHANGED <<log_entries, templates, next_entry, unmatched_entries,
                   error_log, previous>>
    /\ UNCHANGED outside_generate

\* the caller has taken the list (or the exception); the module keeps
\* nothing of the call, the locals of lines 46-47 are gone
Forget ==
    /\ pc \in {"done", "raised"}
    /\ pc' = "idle"
    /\ log_entries' = <<>>
    /\ templates' = <<>>
    /\ next_entry' = 1
    /\ sequence_events' = <<>>
    /\ unmatched_entries' = <<>>
    /\ error_log' = 0
    /\ result' = <<>>
    /\ now_year' = 0
    /\ UNCHANGED previous
    /\ UNCHANGED outside_generate

Next == Call \/ ProcessEntry \/ CollectAndReturn \/ Forget

Spec == Init /\ [][Next]_vars

(***************************************************************************)
(* A second call of generate_sequence_events with the arguments of the     *)
(* first, on the same module object.                                       *)
(***************************************************************************)
\* a second call that goes on with the list of events of the first
CallAgain_KeepEvents ==
    /\ pc = "done"
    /\ ~previous.called
    /\ previous' = [called |-> TRUE, result |-> result, year |-> now_year]
    /\ pc' = "scan"
    /\ next_entry' = 1
    /\ unmatched_entries' = <<>>
    /\ error_log' = 0
    /\ result' = <<>>
    /\ now_year' = 0
    /\ UNCHANGED <<log_entries, templates, sequence_events>>
    /\ UNCHANGED outside_generate

\* lines 44-47 once more: the locals are new lists, the arguments are those
\* of the first call, whose returned list and year are remembered
CallAgain ==
    /\ pc = "done"
    /\ ~previous.called
    /\ previous' = [called |-> TRUE, result |-> result, year |-> now_year]
    /\ pc' = "scan"
    /\ next_entry' = 1
    /\ sequence_events' = <<>>
    /\ unmatched_entries' = <<>>
    /\ error_log' = 0
    /\ result' = <<>>
    /\ now_year' = 0
    /\ UNCHANGED <<log_entries, templates>>
    /\ UNCHANGED outside_generate

NextRepeat == Call \/ ProcessEntry \/ CollectAndReturn \/ CallAgain

SpecRepeat == Init /\ [][NextRepeat]_vars

(***************************************************************************)
(* _map_entity as a state machine: the call, the {groupN} pass, the alias  *)
(* pass, the sanitization and the return.                                  *)
(***************************************************************************)
\* the fragments mapping templates are made of: the placeholders, a letter,
\* an underscore, a hyphen, a space, a special character, a digit and two
\* letters around a run of whitespace
Pieces ==
    {<<"{", "g", "r", "o", "u", "p", "1", "}">>,
     <<"{", "g", "r", "o", "u", "p", "2", "}">>,
     <<"{", "t", "i", "m", "e", "s", "t", "a", "m", "p", "}">>,
     <<"{", "l", "e", "v", "e", "l", "}">>,
     <<"{", "t", "a", "g", "}">>,
     <<"{", "m", "e", "s", "s", "a", "g", "e", "}">>,
     <<"a">>,
     <<"_">>,
     <<"-">>,
     <<" ">>,
     <<"!">>,
     <<"9">>,
     <<"a", " ", " ", "b">>}

RECURSIVE Join(_)
Join(parts) == IF parts = <<>> THEN <<>> ELSE Head(parts) \o Join(Tail(parts))

\* 'Camera Service!!'
CameraService == <<"C", "a", "m", "e", "r", "a", " ", "S", "e", "r", "v", "i", "c", "e", "!", "!">>

\* the values of the argument mapping
Mappings == {Join(parts) : parts \in SeqsUpTo(Pieces, MaxParts)} \cup {CameraService}

\* the values of the argument groups: tuples as match.groups() returns
\* them, of strings and None
GroupTuples ==
    {<<>>,
     <<StrGroup(<<"x">>)>>,
     <<NoneGroup>>,
     <<StrGroup(<<>>), StrGroup(<<"y">>)>>,
     <<StrGroup(<<"x">>), NoneGroup>>,
     <<StrGroup(<<"{", "g", "r", "o", "u", "p", "2", "}">>), StrGroup(<<"x">>)>>,
     <<StrGroup(<<"{", "t", "a", "g", "}">>), StrGroup(<<"y">>), StrGroup(<<"z">>)>>,
     <<StrGroup(<<"a", " ", "b", "!">>), StrGroup(<<"c">>), StrGroup(<<"d">>),
       StrGroup(<<"e">>)>>,
     <<StrGroup(<<"x">>), StrGroup(<<"y">>), StrGroup(<<"z">>),
       StrGroup(<<"w">>), StrGroup(<<"v">>)>>}

\* a call _map_entity(mapping, groups) is about to run
InitMapEntity ==
    /\ OutsideEntityIdle
    /\ entity_pc = "start"
    /\ entity_mapping \in Mappings
    /\ entity_groups \in GroupTuples
    /\ entity_result = <<>>

\* lines 125-126: if not mapping: return "Unknown"
MapEmpty ==
    /\ entity_pc = "start"
    /\ entity_mapping = <<>>
    /\ entity_result' = Unknown
    /\ entity_pc' = "returned"
    /\ UNCHANGED <<entity_mapping, entity_groups>>
    /\ UNCHANGED outside_entity

\* lines 129-133: result = mapping, then the {groupN} pass
MapGroups ==
    /\ entity_pc = "start"
    /\ entity_mapping # <<>>
    /\ entity_result' = ReplaceGroups(entity_mapping, entity_groups, 1)
    /\ entity_pc' = "aliases"
    /\ UNCHANGED <<entity_mapping, entity_groups>>
    /\ UNCHANGED outside_entity

\* lines 136-139: the alias pass, which ends with TypeError when one of the
\* first four groups is None
MapAliases ==
    /\ entity_pc = "aliases"
    /\ IF AliasRaises(entity_groups)
       THEN /\ entity_pc' = "raised"
            /\ UNCHANGED entity_result
       ELSE /\ entity_pc' = "sanitize"
            /\ entity_result' = ReplaceAliases(entity_result, entity_groups)
    /\ UNCHANGED <<entity_mapping, entity_groups>>
    /\ UNCHANGED outside_entity

\* lines 142-145: sanitize, return result or "Unknown"
MapSanitize ==
    /\ entity_pc = "sanitize"
    /\ LET sanitized == Sanitize(entity_result)
       IN  entity_result' = IF sanitized = <<>> THEN Unknown ELSE sanitized
    /\ entity_pc' = "returned"
    /\ UNCHANGED <<entity_mapping, entity_groups>>
    /\ UNCHANGED outside_entity

NextMapEntity == MapEmpty \/ MapGroups \/ MapAliases \/ MapSanitize

SpecMapEntity == InitMapEntity /\ [][NextMapEntity]_vars

(***************************************************************************)
(* TemplateSequenceModule.load_template_configuration.  A template file is *)
(*   [exists, valid_json, has_templates, kind, items]                      *)
(* where has_templates says that the JSON value has a 'templates' member,  *)
(* kind says what that member is and items are its elements when it is an  *)
(* array.  A pattern is the text of the regular expression.                *)
(***************************************************************************)
\* _get_default_templates
DefaultTemplates ==
    <<Template("Camera Service Start",
                 "(\\d{2}-\\d{2}\\s+\\d{2}:\\d{2}:\\d{2}\\.\\d{3})\\s+(\\w+)\\s+(\\w+):\\s*(.*CameraService.*start.*)",
                 [from |-> <<"S", "y", "s", "t", "e", "m">>,
                  to |-> <<"C", "a", "m", "e", "r", "a", "S", "e", "r", "v", "i", "c", "e">>,
                  message |-> <<"S", "e", "r", "v", "i", "c", "e", " ", "S", "t", "a", "r", "t">>],
                 1),
      Template("Camera Activity Launch",
                 "(\\d{2}-\\d{2}\\s+\\d{2}:\\d{2}:\\d{2}\\.\\d{3})\\s+(\\w+)\\s+(\\w+):\\s*(.*ActivityManager.*Starting.*Camera.*)",
                 [from |-> <<"A", "c", "t", "i", "v", "i", "t", "y", "M", "a", "n", "a", "g", "e", "r">>,
                  to |-> <<"C", "a", "m", "e", "r", "a", "A", "c", "t", "i", "v", "i", "t", "y">>,
                  message |-> <<"S", "t", "a", "r", "t", " ", "A", "c", "t", "i", "v", "i", "t", "y">>],
                 2),
      Template("Camera HAL Connection",
                 "(\\d{2}-\\d{2}\\s+\\d{2}:\\d{2}:\\d{2}\\.\\d{3})\\s+(\\w+)\\s+(\\w+):\\s*(.*CameraHAL.*connect.*)",
                 [from |-> <<"C", "a", "m", "e", "r", "a", "S", "e", "r", "v", "i", "c", "e">>,
                  to |-> <<"C", "a", "m", "e", "r", "a", "H", "A", "L">>,
                  message |-> <<"H", "A", "L", " ", "C", "o", "n", "n", "e", "c", "t", "i", "o", "n">>],
                 3),
      Template("Vehicle Gear Change",
                 "(\\d{2}-\\d{2}\\s+\\d{2}:\\d{2}:\\d{2}\\.\\d{3})\\s+(\\w+)\\s+(\\w+):\\s*(.*VehicleHAL.*gear.*change.*)",
                 [from |-> <<"V", "e", "h", "i", "c", "l", "e", "H", "A", "L">>,
                  to |-> <<"C", "a", "m", "e", "r", "a", "A", "p", "p">>,
                  message |-> <<"G", "e", "a", "r", " ", "C", "h", "a", "n", "g", "e", " ", "E", "v", "e", "n", "t">>],
                 4),
      Template("Camera Error",
                 "(\\d{2}-\\d{2}\\s+\\d{2}:\\d{2}:\\d{2}\\.\\d{3})\\s+(\\w+)\\s+(\\w+):\\s*(.*Camera.*error.*)",
                 [from |-> <<"C", "a", "m", "e", "r", "a", "H", "A", "L">>,
                  to |-> <<"C", "a", "m", "e", "r", "a", "S", "e", "r", "v", "i", "c", "e">>,
                  message |-> <<"E", "r", "r", "o", "r", " ", "N", "o", "t", "i", "f", "i", "c", "a", "t", "i", "o", "n">>],
                 5)>>

AllFields == {"name", "pattern", "sequence_mapping", "priority"}

\* an element of the 'templates' array that is a JSON object with the given
\* members; the value of a member that is not there is never read
Entry(name, fields, pattern, priority) ==
    [is_dict |-> TRUE, fields |-> fields, name |-> name, pattern |-> pattern,
     sequence_mapping |-> [from |-> <<"S", "y", "s">>], priority |-> priority]

\* an element that is not a JSON object, such as the number 5
ScalarEntry ==
    [is_dict |-> FALSE, fields |-> {}, name |-> "", pattern |-> "",
     sequence_mapping |-> [from |-> <<"S", "y", "s">>], priority |-> 0]

\* the elements of the arrays: three complete templates, two of them of
\* equal priority, a template whose pattern "(" does not compile, four
\* templates that lack one member each, and a number
FileEntries ==
    { Entry("A", AllFields, "a", 2),
      Entry("B", AllFields, "b", 1),
      Entry("C", AllFields, "c", 2),
      Entry("D", AllFields, "(", 1),
      Entry("E", AllFields \ {"pattern"}, "", 1),
      Entry("F", AllFields \ {"priority"}, "a", 0),
      Entry("G", AllFields \ {"sequence_mapping"}, "a", 1),
      Entry("H", AllFields \ {"name"}, "a", 1),
      ScalarEntry }

\* a file that holds JSON with a 'templates' member of the given kind:
\* "list" for an array, "empty" for {} or "", "not_iterable" for null or a
\* number, "keys" for a non-empty object or string
TemplatesFile(kind, items) ==
    [exists |-> TRUE, valid_json |-> TRUE, has_templates |-> TRUE,
     kind |-> kind, items |-> items]

\* the files load_template_configuration is called on
TemplateFiles ==
    {NoFile,
     \* a file that is not JSON
     [exists |-> TRUE, valid_json |-> FALSE, has_templates |-> FALSE,
      kind |-> "none", items |-> <<>>],
     \* JSON without a 'templates' member
     [exists |-> TRUE, valid_json |-> TRUE, has_templates |-> FALSE,
      kind |-> "none", items |-> <<>>],
     TemplatesFile("empty", <<>>),
     TemplatesFile("not_iterable", <<>>),
     TemplatesFile("keys", <<>>)}
    \cup {TemplatesFile("list", items) : items \in SeqsUpTo(FileEntries, MaxFileEntries)}

\* line 75: Path(template_path).exists()
template_file_exists(file) == file.exists

\* lines 77-88: TRUE when json.load succeeds
validate_json_structure(file) == file.valid_json

\* lines 90-98: data['templates'], or raised TRUE for the ValueError (or the
\* TypeError of a JSON value that has no members)
parse_template_definitions(file) ==
    [raised |-> ~file.has_templates, kind |-> file.kind, items |-> file.items]

\* lines 126-129
has_required_fields(template_data) ==
    {"name", "pattern", "sequence_mapping"} \subseteq template_data.fields

\* lines 131-137: re.compile(pattern) succeeds
validate_regex_pattern(pattern) == pattern # "("

\* lines 104-122 from the k-th element on: the templates appended to
\* valid_templates, or raised TRUE when an exception leaves the loop, which
\* happens for an element that is not an object (the except clause of line
\* 120 calls template_data.get itself); the KeyError of Template.from_dict
\* for an element without 'priority' is caught and the element skipped
RECURSIVE ValidateEntries(_, _, _)
ValidateEntries(items, k, valid_templates) ==
    IF k > Len(items) THEN [raised |-> FALSE, templates |-> valid_templates]
    ELSE LET template_data == items[k]
         IN  IF ~template_data.is_dict
             THEN [raised |-> TRUE, templates |-> <<>>]
             ELSE IF \/ ~has_required_fields(template_data)
                     \/ ~validate_regex_pattern(template_data.pattern)
                     \/ "priority" \notin template_data.fields
                  THEN ValidateEntries(items, k + 1, valid_templates)
                  ELSE ValidateEntries(items, k + 1,
                           Append(valid_templates,
                                  Template(template_data.name,
                                           template_data.pattern,
                                           template_data.sequence_mapping,
                                           template_data.priority)))

\* lines 100-124: a 'templates' member that is no array is iterated all the
\* same; {} and "" have nothing to iterate, null and numbers raise
\* TypeError, a non-empty object or string yields elements that are not
\* objects
validate_template_fields(templates_data) ==
    CASE templates_data.kind = "list" ->
             ValidateEntries(templates_data.items, 1, <<>>)
      [] templates_data.kind = "empty" -> [raised |-> FALSE, templates |-> <<>>]
      [] OTHER -> [raised |-> TRUE, templates |-> <<>>]

\* lines 139-141
sort_templates_by_priority(tpls) == SortByPriority(tpls)

\* lines 143-147: self.default_templates.copy()
handle_missing_template_file == DefaultTemplates

\* lines 149-153: self.default_templates.copy()
handle_invalid_json == DefaultTemplates

\* steps 3 and 4 of the main flow end with an exception
LoadRaises(file) ==
    LET templates_data == parse_template_definitions(file)
    IN  templates_data.raised \/ validate_template_fields(templates_data).raised

\* a call load_template_configuration(template_file) on a new module
InitLoad ==
    /\ OutsideLoaderIdle
    /\ loader_pc = "start"
    /\ template_file \in TemplateFiles
    /\ self_templates = <<>>
    /\ returned = <<>>

\* lines 45, 62-64: AF1, the file is missing
LoadMissingFile ==
    /\ loader_pc = "start"
    /\ ~template_file_exists(template_file)
    /\ self_templates' = handle_missing_template_file
    /\ returned' = self_templates'
    /\ loader_pc' = "returned"
    /\ UNCHANGED template_file
    /\ UNCHANGED outside_loader

\* lines 47, 59-61: AF2, the file is not JSON
LoadInvalidJson ==
    /\ loader_pc = "start"
    /\ template_file_exists(template_file)
    /\ ~validate_json_structure(template_file)
    /\ self_templates' = handle_invalid_json
    /\ returned' = self_templates'
    /\ loader_pc' = "returned"
    /\ UNCHANGED template_file
    /\ UNCHANGED outside_loader

\* lines 48-58: the main flow, steps 3 to 7
LoadTemplates ==
    /\ loader_pc = "start"
    /\ template_file_exists(template_file)
    /\ validate_json_structure(template_file)
    /\ ~LoadRaises(template_file)
    /\ self_templates' =
           sort_templates_by_priority(
               validate_template_fields(
                   parse_template_definitions(template_file)).templates)
    /\ returned' = self_templates'
    /\ loader_pc' = "returned"
    /\ UNCHANGED template_file
    /\ UNCHANGED outside_loader

\* lines 66-68: an exception of steps 3 to 5 is caught and the defaults
\* are loaded
LoadFailed ==
    /\ loader_pc = "start"
    /\ template_file_exists(template_file)
    /\ validate_json_structure(template_file)
    /\ LoadRaises(template_file)
    /\ self_templates' = handle_missing_template_file
    /\ returned' = self_templates'
    /\ loader_pc' = "returned"
    /\ UNCHANGED template_file
    /\ UNCHANGED outside_loader

NextLoad == LoadMissingFile \/ LoadInvalidJson \/ LoadTemplates \/ LoadFailed

SpecLoad == InitLoad /\ [][NextLoad]_vars

(***************************************************************************)
(* ReadLogModule.search_and_filter_logs                                    *)
(***************************************************************************)
UpperCase ==
    <<"A", "B", "C", "D", "E", "F", "G", "H", "I", "J", "K", "L", "M",
      "N", "O", "P", "Q", "R", "S", "T", "U", "V", "W", "X", "Y", "Z">>

LowerCase ==
    <<"a", "b", "c", "d", "e", "f", "g", "h", "i", "j", "k", "l", "m",
      "n", "o", "p", "q", "r", "s", "t", "u", "v", "w", "x", "y", "z">>

\* str.lower() on the characters of the model
Lower(s) ==
    [k \in 1..Len(s) |->
        IF \E n \in 1..26 : UpperCase[n] = s[k]
        THEN LowerCase[CHOOSE n \in 1..26 : UpperCase[n] = s[k]]
        ELSE s[k]]

\* w in s
Contains(s, w) == \E p \in 1..(Len(s) + 1) : MatchesAt(s, w, p)

\* the truth value of an optional string: None and "" are false
Truthy(arg, empty) == ~arg.none /\ arg.v # empty

\* lines 230-236
validate_search_parameters(keyword, tag, level) ==
    [keyword |-> IF Truthy(keyword, <<>>) THEN Some(Lower(keyword.v))
                 ELSE None(<<>>),
     tag     |-> tag,
     level   |-> level]

\* only the named level passes the filter
level_matches_Exact(entry_level, filter_level) == entry_level = filter_level

\* lines 259-270
level_matches(entry_level, filter_level) ==
    LET level_hierarchy == [V |-> 0, D |-> 1, I |-> 2, W |-> 3, E |-> 4, F |-> 5]
    IN  level_hierarchy[entry_level] >= level_hierarchy[filter_level]

\* lines 238-257
matches_search_criteria(entry, criteria) ==
    /\ Truthy(criteria.keyword, <<>>) =>
           Contains(Lower(entry.message), criteria.keyword.v)
    /\ Truthy(criteria.tag, "") => entry.tag = criteria.tag.v
    /\ ~criteria.level.none => level_matches(entry.level, criteria.level.v)

\* lines 179-228: the list returned
search_and_filter_logs(entries, keyword, tag, level) ==
    LET criteria == validate_search_parameters(keyword, tag, level)
    IN  IF /\ ~Truthy(criteria.keyword, <<>>)
           /\ ~Truthy(criteria.tag, "")
           /\ criteria.level.none
        THEN entries
        ELSE SelectSeq(entries, LAMBDA entry : matches_search_criteria(entry, criteria))

\* the log entries searched
SearchEntries ==
    { LogEntry(TsA, "I", "Cam", <<"C", "a", "m", "e", "r", "a", " ", "o", "n">>),
      LogEntry(TsA, "E", "cam", <<"c", "a", "m", "e", "r", "a">>),
      LogEntry(TsB, "D", "Cam", <<"x">>),
      LogEntry(TsB, "F", "Hal", <<"C", "A", "M">>),
      LogEntry(TsC, "V", "Hal", <<>>),
      LogEntry(TsC, "W", "Cam", <<"a", "m">>) }

Keywords ==
    {None(<<>>), Some(<<>>), Some(<<"C", "a", "m">>), Some(<<"A", "M">>),
     Some(<<"z">>)}

Tags == {None(""), Some(""), Some("Cam"), Some("Hal")}

LogLevels == {"V", "D", "I", "W", "E", "F"}

Levels == {None("V")} \cup {Some(l) : l \in LogLevels}

\* a call search_and_filter_logs(log_entries, keyword, tag, level)
InitSearch ==
    /\ OutsideReadLogIdle
    /\ ReadLogConstructed
    /\ search_pc = "start"
    /\ search_entries \in SeqsUpTo(SearchEntries, MaxSearchEntries)
    /\ search_criteria \in [keyword : Keywords, tag : Tags, level : Levels]
    /\ filtered_entries = <<>>

\* lines 193-228
Search ==
    /\ search_pc = "start"
    /\ filtered_entries' =
           search_and_filter_logs(search_entries, search_criteria.keyword,
                                  search_criteria.tag, search_criteria.level)
    /\ search_pc' = "returned"
    /\ UNCHANGED <<log_pattern, compiled_pattern, pattern_updates,
                   search_entries, search_criteria>>
    /\ UNCHANGED outside_read_log

NextSearch == Search

SpecSearch == InitSearch /\ [][NextSearch]_vars

(***************************************************************************)
(* ReadLogModule.update_log_pattern                                        *)
(***************************************************************************)
\* the patterns passed to update_log_pattern: the default, two that compile
\* and do not match the sample line of line 329, one that compiles and
\* matches it, and three that re.compile rejects
NewPatterns == {DefaultAndroidPattern, "^x$", "\\d+ (\\w+)", "^09-17.*", "(", "[a", "*"}

\* re.compile(pattern) raises re.error
re_error(pattern) == pattern \in {"(", "[a", "*"}

\* lines 347-354
validate_regex_syntax(pattern) == ~re_error(pattern)

\* line 329: test_pattern.match(sample_line)
matches_sample_line(pattern) == pattern \in {DefaultAndroidPattern, "^09-17.*"}

\* one call of update_log_pattern as its caller sees it
PatternUpdate(new_pattern, success) ==
    [new_pattern |-> new_pattern, returned |-> success,
     before |-> [log_pattern |-> log_pattern, compiled_pattern |-> compiled_pattern],
     after  |-> [log_pattern |-> log_pattern', compiled_pattern |-> compiled_pattern']]

InitUpdatePattern ==
    /\ OutsideReadLogIdle
    /\ ReadLogConstructed
    /\ SearchIdle

\* a pattern that does not match the sample line is refused
UpdateLogPattern_RequireSample ==
    /\ Len(pattern_updates) < MaxUpdates
    /\ \E new_pattern \in NewPatterns :
          IF validate_regex_syntax(new_pattern) /\ matches_sample_line(new_pattern)
          THEN /\ log_pattern' = new_pattern
               /\ compiled_pattern' = re_compile(new_pattern)
               /\ pattern_updates' = Append(pattern_updates, PatternUpdate(new_pattern, TRUE))
          ELSE /\ UNCHANGED <<log_pattern, compiled_pattern>>
               /\ pattern_updates' = Append(pattern_updates, PatternUpdate(new_pattern, FALSE))
    /\ UNCHANGED <<search_pc, search_entries, search_criteria, filtered_entries>>
    /\ UNCHANGED outside_read_log

\* lines 304-345
UpdateLogPattern ==
    /\ Len(pattern_updates) < MaxUpdates
    /\ \E new_pattern \in NewPatterns :
          IF ~validate_regex_syntax(new_pattern)
          THEN /\ UNCHANGED <<log_pattern, compiled_pattern>>
               /\ pattern_updates' = Append(pattern_updates, PatternUpdate(new_pattern, FALSE))
          ELSE LET test_pattern == re_compile(new_pattern)
               IN  /\ log_pattern' = new_pattern
                   /\ compiled_pattern' = test_pattern
                   /\ pattern_updates' = Append(pattern_updates, PatternUpdate(new_pattern, TRUE))
    /\ UNCHANGED <<search_pc, search_entries, search_criteria, filtered_entries>>
    /\ UNCHANGED outside_read_log

NextUpdatePattern == UpdateLogPattern

SpecUpdatePattern == InitUpdatePattern /\ [][NextUpdatePattern]_vars

(***************************************************************************)
(* InputModule.  A file is                                                 *)
(*   [kind |-> "missing" | "directory" | "file", readable |-> BOOLEAN,     *)
(*    suffix |-> Path(file_path).suffix, content |-> its bytes]            *)
(***************************************************************************)
\* line 26
supported_encodings == <<"utf-8", "ascii", "latin-1">>

\* line 27
supported_extensions == {".txt", ".log", ".logcat"}

\* the bytes of the files: a, space, line feed and 0xFF
FileBytes == {97, 32, 10, 255}

\* the codec accepts the byte; 0xFF is not valid UTF-8 nor ASCII
Decodes(encoding, b) == encoding = "latin-1" \/ b < 128

\* the character a byte decodes to
Chr(encoding, b) ==
    CASE b = 97 -> "a"
      [] b = 32 -> " "
      [] b = 10 -> "\n"
      [] b = 255 /\ encoding = "latin-1" -> "U+00FF"

Decode(encoding, bytes) == [k \in 1..Len(bytes) |-> Chr(encoding, bytes[k])]

\* the position of the first byte the codec rejects, 0 when it accepts all
FirstUndecodable(encoding, bytes) ==
    LET bad == {k \in 1..Len(bytes) : ~Decodes(encoding, bytes[k])}
    IN  IF bad = {} THEN 0 ELSE Min(bad)

\* s.split('\n')
RECURSIVE Split(_)
Split(s) ==
    LET feeds == {k \in 1..Len(s) : s[k] = "\n"}
    IN  IF feeds = {} THEN <<s>>
        ELSE <<SubSeq(s, 1, Min(feeds) - 1)>> \o Split(SubSeq(s, Min(feeds) + 1, Len(s)))

\* file.readlines() on the decoded text: the lines with their line feeds
readlines(text) ==
    LET parts == Split(text)
        n == Len(parts)
    IN  [k \in 1..(IF parts[n] = <<>> THEN n - 1 ELSE n) |->
            IF k < n THEN parts[k] \o <<"\n">> ELSE parts[k]]

\* [line.strip() for line in lines if line.strip()]
StrippedNonEmpty(lines) ==
    LET kept == SelectSeq(lines, LAMBDA line : Strip(line) # <<>>)
    IN  [k \in 1..Len(kept) |-> Strip(kept[k])]

\* how a call ended: with an exception, or with the lines returned
Raised(exception, content_was_read) ==
    [called |-> TRUE, raised |-> exception, lines |-> <<>>,
     content_read |-> content_was_read]

Returned(lines) ==
    [called |-> TRUE, raised |-> "", lines |-> lines, content_read |-> TRUE]

\* open(file_path, 'r') succeeds
CanOpen(f) == f.kind = "file" /\ f.readable

\* os.path.getsize(file_path) of a path that exists
getsize(f) == IF f.kind = "directory" THEN 4096 ELSE Len(f.content)

\* lines 71-87
validate_file_path(f) == f.kind # "missing" /\ f.kind = "file"

\* lines 89-106
check_file_permissions(f) == f.kind = "file" /\ CanOpen(f)

\* str.lower() on the suffixes of the model
suffix_lower(suffix) ==
    CASE suffix = ".LOG" -> ".log"
      [] suffix = ".Txt" -> ".txt"
      [] OTHER -> suffix

\* lines 108-117
validate_file_format(f) == suffix_lower(f.suffix) \in supported_extensions

\* lines 134-157
read_file_normal(f) ==
    LET readable == {e \in 1..Len(supported_encodings) :
                        CanOpen(f) /\ FirstUndecodable(supported_encodings[e], f.content) = 0}
        lines == IF readable = {} THEN <<>>
                 ELSE readlines(Decode(supported_encodings[Min(readable)], f.content))
    IN  IF lines = <<>> THEN Raised("ValueError", TRUE)
        ELSE Returned(StrippedNonEmpty(lines))

\* lines 170-191: the reads of one encoding from the k-th on; the text file
\* object decodes whole blocks of DecodeBlock bytes until it has the
\* characters asked for, and raises when a block holds a byte the codec
\* rejects
RECURSIVE ReadChunks(_, _, _, _, _, _)
ReadChunks(encoding, bytes, size, k, lines, current_line) ==
    LET bad == FirstUndecodable(encoding, bytes)
        decoded == Min({Len(bytes), ((k * size + DecodeBlock - 1) \div DecodeBlock) * DecodeBlock})
        chunk == Decode(encoding, SubSeq(bytes, (k - 1) * size + 1, Min({k * size, Len(bytes)})))
    IN  IF bad # 0 /\ bad <= decoded
        THEN [failed |-> TRUE, lines |-> lines, current_line |-> current_line]
        ELSE IF chunk = <<>>
        THEN [failed |-> FALSE,
              lines |-> IF Strip(current_line) # <<>>
                        THEN Append(lines, Strip(current_line)) ELSE lines,
              current_line |-> current_line]
        ELSE LET chunk_lines == IF current_line # <<>>
                                THEN [Split(chunk) EXCEPT ![1] = current_line \o @]
                                ELSE Split(chunk)
                 n == Len(chunk_lines)
             IN  ReadChunks(encoding, bytes, size, k + 1,
                            lines \o StrippedNonEmpty(SubSeq(chunk_lines, 1, n - 1)),
                            chunk_lines[n])

\* lines 167-201: the loop over the encodings from the e-th on; lines and
\* current_line are what the encodings tried before have left
RECURSIVE TryEncodings(_, _, _, _, _)
TryEncodings(f, size, e, lines, current_line) ==
    IF e > Len(supported_encodings) THEN lines
    ELSE IF ~CanOpen(f) THEN TryEncodings(f, size, e + 1, lines, current_line)
    ELSE LET r == ReadChunks(supported_encodings[e], f.content, size, 1, lines, current_line)
         IN  IF r.failed THEN TryEncodings(f, size, e + 1, r.lines, r.current_line)
             ELSE r.lines

\* lines 159-207
read_file_chunked(f, size) ==
    LET lines == TryEncodings(f, size, 1, <<>>, <<>>)
    IN  IF lines = <<>> THEN Raised("ValueError", TRUE) ELSE Returned(lines)

\* lines 119-132
read_file_lines(f, size) ==
    IF getsize(f) > size THEN read_file_chunked(f, size) ELSE read_file_normal(f)

\* lines 29-69, with the format validated before the path
read_log_file_FormatFirst(f, size) ==
    IF ~validate_file_format(f) THEN Raised("ValueError", FALSE)
    ELSE IF ~validate_file_path(f) THEN Raised("FileNotFoundError", FALSE)
    ELSE IF ~check_file_permissions(f) THEN Raised("PermissionError", FALSE)
    ELSE read_file_lines(f, size)

\* lines 29-69
read_log_file(f, size) ==
    IF ~validate_file_path(f) THEN Raised("FileNotFoundError", FALSE)
    ELSE IF ~check_file_permissions(f) THEN Raised("PermissionError", FALSE)
    ELSE IF ~validate_file_format(f) THEN Raised("ValueError", FALSE)
    ELSE read_file_lines(f, size)

\* lines 244-281; no file of the model is larger than max_file_size (2 GB)
validate_business_rules(f) ==
    IF f.kind = "missing"
    THEN [called |-> TRUE, valid |-> FALSE, warnings |-> <<>>,
          errors |-> <<"Error validating file">>]
    ELSE [called |-> TRUE, valid |-> TRUE,
          warnings |-> IF getsize(f) = 0 THEN <<"File is empty">> ELSE <<>>,
          errors |-> <<>>]

Suffixes == {".txt", ".log", ".logcat", ".LOG", ".csv", ""}

\* what can be at file_path
InputFiles ==
    {[kind |-> "missing", readable |-> FALSE, suffix |-> s, content |-> <<>>] :
        s \in Suffixes}
    \cup {[kind |-> "directory", readable |-> TRUE, suffix |-> s, content |-> <<>>] :
        s \in Suffixes}
    \cup {[kind |-> "file", readable |-> FALSE, suffix |-> s, content |-> c] :
        s \in Suffixes, c \in {<<>>, <<97>>}}
    \cup {[kind |-> "file", readable |-> TRUE, suffix |-> s, content |-> c] :
        s \in Suffixes, c \in SeqsUpTo(FileBytes, MaxBytes)}

InitInput ==
    /\ OutsideInputIdle
    /\ log_file \in InputFiles
    /\ chunk_size \in 1..MaxChunkSize
    /\ log_outcome = NotCalled
    /\ normal_outcome = NotCalled
    /\ chunked_outcome = NotCalled
    /\ validation = NotValidated

ReadLogFile ==
    /\ ~log_outcome.called
    /\ log_outcome' = read_log_file(log_file, chunk_size)
    /\ UNCHANGED <<log_file, chunk_size, normal_outcome, chunked_outcome, validation>>
    /\ UNCHANGED outside_input

ReadFileNormal ==
    /\ ~normal_outcome.called
    /\ normal_outcome' = read_file_normal(log_file)
    /\ UNCHANGED <<log_file, chunk_size, log_outcome, chunked_outcome, validation>>
    /\ UNCHANGED outside_input

ReadFileChunked ==
    /\ ~chunked_outcome.called
    /\ chunked_outcome' = read_file_chunked(log_file, chunk_size)
    /\ UNCHANGED <<log_file, chunk_size, log_outcome, normal_outcome, validation>>
    /\ UNCHANGED outside_input

ValidateBusinessRules ==
    /\ ~validation.called
    /\ validation' = validate_business_rules(log_file)
    /\ UNCHANGED <<log_file, chunk_size, log_outcome, normal_outcome, chunked_outcome>>
    /\ UNCHANGED outside_input

NextInput == ReadLogFile \/ ReadFileNormal \/ ReadFileChunked \/ ValidateBusinessRules

SpecInput == InitInput /\ [][NextInput]_vars

(***************************************************************************)
(* export_sequence_diagrams.  A diagram file is the sequence of its lines, *)
(* a line being [kind, from, to, text]:                                    *)
(*   "title"        a Markdown heading or the closing remark               *)
(*   "open"         ```mermaid and sequenceDiagram                         *)
(*   "participant"  participant <from>                                     *)
(*   "message"      <from>->><to>: <text>                                  *)
(*   "note"         Note over <from>,<to>: <text>  (to empty: one name)   *)
(*   "close"        ```                                                     *)
(***************************************************************************)
\* line 27, scaled down from 20
overview_event_limit == 1

\* line 26, scaled down from 1000
max_events_per_diagram == 2

Line(kind, from, to, text) == [kind |-> kind, from |-> from, to |-> to, text |-> text]

\* sorted(names) for a set of strings
RECURSIVE SortedNames(_)
SortedNames(names) ==
    IF names = {} THEN <<>>
    ELSE LET least == CHOOSE x \in names : \A y \in names : ~StrLess(y, x)
         IN  <<least>> \o SortedNames(names \ {least})

\* lines 318-328
sanitize_participant_name(name) ==
    LET sanitized == CollapseWhitespace(Strip(RemoveSpecial(name)))
        prefixed  == IF sanitized # <<>> /\ sanitized[1] \notin LetterChars
                     THEN <<"P", "_">> \o sanitized
                     ELSE sanitized
    IN  IF prefixed = <<>> THEN Unknown ELSE prefixed

\* lines 303-316
extract_participants(events) ==
    LET participants == {events[k].from_entity : k \in 1..Len(events)}
                            \cup {events[k].to_entity : k \in 1..Len(events)}
        ordered == SortedNames(participants)
    IN  [k \in 1..Len(ordered) |-> sanitize_participant_name(ordered[k])]

ParticipantLines(participants) ==
    [k \in 1..Len(participants) |-> Line("participant", participants[k], <<>>, <<>>)]

MessageLine(event) == Line("message", event.from_entity, event.to_entity, event.message)

\* lines 222-247
generate_overview_diagram(events) ==
    LET limited_events == SubSeq(events, 1, Min({overview_event_limit, Len(events)}))
        participants == extract_participants(limited_events)
    IN  <<Line("title", <<>>, <<>>, <<>>), Line("open", <<>>, <<>>, <<>>)>>
            \o ParticipantLines(participants)
            \o [k \in 1..Len(limited_events) |-> MessageLine(limited_events[k])]
            \o <<Line("close", <<>>, <<>>, <<>>), Line("title", <<>>, <<>>, <<>>)>>

\* lines 269-279: the lines of the events from the i-th on (i from 0)
RECURSIVE EventLines(_, _, _)
EventLines(events, participants, i) ==
    IF i >= Len(events) THEN <<>>
    ELSE LET event == events[i + 1]
         IN  (IF i % 10 = 0
              THEN <<Line("note", participants[1], participants[Len(participants)],
                          event.timestamp)>>
              ELSE <<>>)
             \o <<MessageLine(event)>>
             \o (IF DictGet(event.metadata, "log_level", "") \in {"E", "F"}
                 THEN <<Line("note", event.to_entity, <<>>, <<>>)>>
                 ELSE <<>>)
             \o EventLines(events, participants, i + 1)

\* lines 255-284: one diagram of no more than max_events_per_diagram events
DetailedPage(events) ==
    LET participants == extract_participants(events)
    IN  <<Line("title", <<>>, <<>>, <<>>), Line("open", <<>>, <<>>, <<>>)>>
            \o ParticipantLines(participants)
            \o EventLines(events, participants, 0)
            \o <<Line("close", <<>>, <<>>, <<>>), Line("title", <<>>, <<>>, <<>>)>>

\* lines 286-301: the pages from the given one on (from 0)
RECURSIVE generate_paginated_diagrams(_, _)
generate_paginated_diagrams(events, page) ==
    LET total_pages == (Len(events) + max_events_per_diagram - 1) \div max_events_per_diagram
        start_idx == page * max_events_per_diagram
        end_idx == Min({start_idx + max_events_per_diagram, Len(events)})
    IN  IF page >= total_pages THEN <<>>
        ELSE <<Line("title", <<>>, <<>>, <<>>)>>
                 \o DetailedPage(SubSeq(events, start_idx + 1, end_idx))
                 \o generate_paginated_diagrams(events, page + 1)

\* lines 249-284
generate_detailed_diagram(events) ==
    IF Len(events) > max_events_per_diagram
    THEN <<Line("title", <<>>, <<>>, <<>>)>> \o generate_paginated_diagrams(events, 0)
    ELSE DetailedPage(events)

\* SequenceEvent(timestamp, from_entity, to_entity, message, ...)
\* with entity names that _map_entity can return
SequenceEvent(from, to, level) ==
    [timestamp |-> TsA, from_entity |-> from, to_entity |-> to, message |-> <<"m">>,
     metadata |-> [log_level |-> level]]

DiagramEvents ==
    { SequenceEvent(<<"C", "a", "m">>, <<"a", "_", "b">>, "I"),
      SequenceEvent(<<"a", "_", "b">>, <<"C", "a", "m">>, "E"),
      SequenceEvent(<<"9", "a">>, <<"C", "a", "m">>, "I"),
      SequenceEvent(<<"C", "a", "m">>, <<"-", "a">>, "F"),
      SequenceEvent(<<"a", "_", "b">>, <<"a", "_", "b">>, "D") }

InitExport ==
    /\ OutsideDiagramIdle
    /\ diagram_pc = "start"
    /\ diagram_events \in SeqsUpTo(DiagramEvents, MaxDiagramEvents)
    /\ overview_content = <<>>
    /\ detailed_content = <<>>

\* lines 191-193: nothing to export
ExportNothing ==
    /\ diagram_pc = "start"
    /\ diagram_events = <<>>
    /\ diagram_pc' = "returned"
    /\ UNCHANGED <<diagram_events, overview_content, detailed_content>>
    /\ UNCHANGED outside_diagram

\* lines 195-216
ExportSequenceDiagrams ==
    /\ diagram_pc = "start"
    /\ diagram_events # <<>>
    /\ overview_content' = generate_overview_diagram(diagram_events)
    /\ detailed_content' = generate_detailed_diagram(diagram_events)
    /\ diagram_pc' = "returned"
    /\ UNCHANGED diagram_events
    /\ UNCHANGED outside_diagram

NextExport == ExportNothing \/ ExportSequenceDiagrams

SpecExport == InitExport /\ [][NextExport]_vars

(***************************************************************************)
(* Properties of generate_sequence_events.                                 *)
(***************************************************************************)
\* re.search(template.pattern, log_entry.message) finds a match
Matches(template, log_entry) ==
    /\ template.pattern.compiles
    /\ re_search(template.pattern, log_entry.message).matched

\* the positions in the supplied list of the templates matching entry i
MatchingTemplates(i) ==
    {k \in 1..Len(templates) : Matches(templates[k], log_entries[i])}

\* the matching templates of least priority value
BestTemplates(i) ==
    {k \in MatchingTemplates(i) :
        \A j \in MatchingTemplates(i) :
            templates[k].priority <= templates[j].priority}

\* the template the priority order selects for entry i: the earliest
\* supplied among the matching ones of least priority value
Selected(i) == Min(BestTemplates(i))

\* building the event of entry i from template k ends with an exception
MappingFails(i, k) ==
    ~create_sequence_event(log_entries[i], i, templates[k],
        re_search(templates[k].pattern, log_entries[i].message).groups).ok

\* the events of entry i in a list of events
EventsOf(events, i) == {n \in 1..Len(events) : events[n].log_entry = i}

\* C1: every returned event has the event_type of a template that matches
\* the message of its record and whose priority value is the least among
\* the templates matching that message.
C1_PriorityWins ==
    pc = "done" =>
        \A n \in 1..Len(result) :
            \E k \in BestTemplates(result[n].log_entry) :
                result[n].event_type = templates[k].name

\* C2: when several templates of the least matching priority value match a
\* record, its event is built from the one supplied earliest.
C2_EarliestOfEqualPriority ==
    pc = "done" =>
        \A n \in 1..Len(result) :
            LET i == result[n].log_entry
            IN  Cardinality(BestTemplates(i)) >= 2 =>
                    /\ result[n].event_type = templates[Selected(i)].name
                    /\ result[n].metadata.groups =
                           re_search(templates[Selected(i)].pattern,
                                     log_entries[i].message).groups

\* C3: the returned list is in ascending order of the timestamp strings.
C3_SortedByTimestamp ==
    pc = "done" =>
        \A n \in 1..(Len(result) - 1) :
            ~StrLess(result[n + 1].timestamp, result[n].timestamp)

\* C3 witness: a returned list whose first event comes from the second
\* record, the records having been supplied in descending timestamp order
C3_Witness ==
    /\ pc = "done"
    /\ Len(result) = 2
    /\ result[1].log_entry = 2
    /\ StrLess(result[1].timestamp, result[2].timestamp)

\* C4: returned events with identical timestamp strings are in the order of
\* their records in the input list.
C4_StableForEqualTimestamps ==
    pc = "done" =>
        \A m, n \in 1..Len(result) :
            (m < n /\ result[m].timestamp = result[n].timestamp)
                => result[m].log_entry < result[n].log_entry

\* C4 witness: two different records with one timestamp, both in the output
C4_Witness ==
    /\ pc = "done"
    /\ Len(result) = 2
    /\ result[1].timestamp = result[2].timestamp
    /\ log_entries[1] # log_entries[2]
    /\ result[1].log_entry = 1

\* no template of the list matches entry i
NoTemplateMatches(i) == MatchingTemplates(i) = {}

\* every pattern of the list compiles, as the loader guarantees
AllCompile == \A k \in 1..Len(templates) : templates[k].pattern.compiles

\* C5: a record that matches no template gives no event, and is no error:
\* with patterns that compile the call never ends with an exception, and
\* when no record matches the list returned is empty.
C5_NoMatchNoEvent ==
    /\ \A i \in 1..Len(log_entries) :
          NoTemplateMatches(i) =>
              /\ EventsOf(sequence_events, i) = {}
              /\ EventsOf(result, i) = {}
    /\ AllCompile => pc # "raised"
    /\ (pc = "done" /\ \A i \in 1..Len(log_entries) : NoTemplateMatches(i))
          => /\ result = <<>>
             /\ Len(unmatched_entries) = Len(log_entries)
             /\ error_log = 0

\* C5 witness: a call with a template and a record it does not match, and
\* a call with no template at all, each returned with the empty list
C5_Witness ==
    /\ pc = "done"
    /\ log_entries # <<>>
    /\ \A i \in 1..Len(log_entries) : NoTemplateMatches(i)
    /\ result = <<>>
    /\ templates # <<>>

\* C6: each record gives at most one event and is otherwise tallied as
\* unmatched, so events + unmatched = records processed; a record matching
\* some template, none of whose matching templates fails in the mapping,
\* gives exactly one event.
C6_OneEventOrUnmatched ==
    /\ pc = "scan" =>
          Len(sequence_events) + Len(unmatched_entries) = next_entry - 1
    /\ pc = "done" =>
          /\ Len(result) + Len(unmatched_entries) = Len(log_entries)
          /\ \A i \in 1..Len(log_entries) :
                /\ Cardinality(EventsOf(result, i)) <= 1
                /\ (EventsOf(result, i) = {})
                      <=> (\E u \in 1..Len(unmatched_entries) :
                              unmatched_entries[u] = i)
                /\ (/\ ~NoTemplateMatches(i)
                    /\ \A k \in MatchingTemplates(i) : ~MappingFails(i, k))
                      => /\ Cardinality(EventsOf(result, i)) = 1
                         /\ result # <<>>

\* C6 witness: a call returned with one record that gave an event and one
\* that was tallied as unmatched
C6_Witness ==
    /\ pc = "done"
    /\ Len(log_entries) = 2
    /\ Len(result) = 1
    /\ unmatched_entries = <<1>>
    /\ ~NoTemplateMatches(2)

\* C7: when building the event from the template selected by priority
\* fails in the mapping, the record gives no event at all.
C7_FailedMappingNoEvent ==
    pc = "done" =>
        \A i \in 1..Len(log_entries) :
            (~NoTemplateMatches(i) /\ MappingFails(i, Selected(i)))
                => EventsOf(result, i) = {}

\* C8: the call always returns a list; no exception leaves it, not for a
\* record without match, a timestamp that does not parse, a mapping that
\* fails, nor for a template whose pattern does not compile.
C8_NeverRaises == pc # "raised"

\* C9: the event at position n (from 1) of the returned list has
\* sequence_number n.
C9_SequenceNumbers ==
    pc = "done" =>
        \A n \in 1..Len(result) :
            /\ "sequence_number" \in DOMAIN result[n].metadata
            /\ result[n].metadata.sequence_number = n

\* C9 witness: two events returned in the reverse of the order of their
\* records, numbered by their final positions
C9_Witness ==
    /\ pc = "done"
    /\ Len(result) = 2
    /\ result[1].log_entry = 2
    /\ result[2].log_entry = 1
    /\ result[2].metadata.sequence_number = 2

\* what _parse_timestamp returns for the timestamps of LogEntries when the
\* current year is y, as the source gives it when run
ParsedAs(ts, y) ==
    CASE ts = TsA -> [ok |-> TRUE, usec |-> 0,
                      sec |-> IF y = 2028 THEN 22501815 ELSE 22415415]
      [] ts = TsB -> [ok |-> TRUE, usec |-> 500000,
                      sec |-> IF y = 2028 THEN 22501815 ELSE 22415415]
      [] ts = TsC -> [ok |-> TRUE, usec |-> 0,
                      sec |-> IF y = 2028 THEN 22503600 ELSE 22417200]
      [] ts = TsNoMs -> [ok |-> FALSE, usec |-> 0, sec |-> 0]
      [] ts = TsFeb -> [ok |-> y = 2028, usec |-> IF y = 2028 THEN 750000 ELSE 0,
                        sec |-> IF y = 2028 THEN 5183999 ELSE 0]

\* the timedelta d is the difference c - p of two parsed timestamps
IsDifference(d, c, p) ==
    /\ d.microseconds \in 0..999999
    /\ \/ /\ c.usec - p.usec = d.microseconds
          /\ c.sec - p.sec = d.seconds
       \/ /\ c.usec - p.usec = d.microseconds - 1000000
          /\ c.sec - p.sec = d.seconds + 1

\* C10: the first returned event has no time-delta field; a later event has
\* it exactly when its timestamp and that of the event before it both
\* parse, and then it is the difference current minus previous, negative
\* when the previous one is the later.
C10_TimeDelta ==
    pc = "done" =>
        \E y \in CurrentYears :
            \A n \in 1..Len(result) :
                LET has == "time_since_previous" \in DOMAIN result[n].metadata
                IN  IF n = 1 THEN ~has
                    ELSE LET p == ParsedAs(result[n - 1].timestamp, y)
                             c == ParsedAs(result[n].timestamp, y)
                         IN  /\ has <=> (p.ok /\ c.ok)
                             /\ has => IsDifference(
                                          result[n].metadata.time_since_previous,
                                          c, p)

\* C10 witness: a second event whose delta is negative (-1785 s), next to a
\* first event without the field
C10_Witness ==
    /\ pc = "done"
    /\ Len(result) = 2
    /\ "time_since_previous" \notin DOMAIN result[1].metadata
    /\ "time_since_previous" \in DOMAIN result[2].metadata
    /\ result[2].metadata.time_since_previous.seconds = 0 - 1785

\* a returned event without the field because a neighbour does not parse
C10_WitnessAbsent ==
    /\ pc = "done"
    /\ Len(result) = 2
    /\ result[1].timestamp = TsNoMs
    /\ "time_since_previous" \notin DOMAIN result[2].metadata

\* the keys _create_sequence_event gives every metadata dict, with the
\* name the claim gives the captured groups
ClaimedKeys ==
    {"template_name", "template_priority", "log_level", "log_tag",
     "matched_groups", "sequence_number"}

\* the keys the code writes
WrittenKeys ==
    {"template_name", "template_priority", "log_level", "log_tag",
     "groups", "sequence_number"}

\* the template at position k gave the event e of entry i its groups
BuiltFrom(e, i, k) ==
    /\ k \in MatchingTemplates(i)
    /\ e.event_type = templates[k].name
    /\ e.metadata.template_name = templates[k].name
    /\ e.metadata.template_priority = templates[k].priority
    /\ e.metadata.groups =
           re_search(templates[k].pattern, log_entries[i].message).groups

\* C11 as claimed: every returned event has the metadata keys
\* template_name, template_priority, log_level, log_tag, matched_groups and
\* sequence_number, and time_since_previous_seconds as the only other key.
C11_ClaimedMetadataKeys ==
    pc = "done" =>
        \A n \in 1..Len(result) :
            /\ ClaimedKeys \subseteq DOMAIN result[n].metadata
            /\ DOMAIN result[n].metadata
                  \subseteq ClaimedKeys \cup {"time_since_previous_seconds"}

\* C11 amended: every returned event has the metadata keys template_name,
\* template_priority, log_level, log_tag, groups (the ordered captured
\* groups of the match) and sequence_number, and time_since_previous as
\* the only other key, present on no first event.
C11_MetadataKeys ==
    pc = "done" =>
        \A n \in 1..Len(result) :
            /\ WrittenKeys \subseteq DOMAIN result[n].metadata
            /\ DOMAIN result[n].metadata
                  \subseteq WrittenKeys \cup {"time_since_previous"}
            /\ n = 1 => DOMAIN result[n].metadata = WrittenKeys
            /\ \E k \in 1..Len(templates) :
                  BuiltFrom(result[n], result[n].log_entry, k)

\* C11 witness: two returned events, the second with the time delta, the
\* first with one captured group
C11_Witness ==
    /\ pc = "done"
    /\ Len(result) = 2
    /\ DOMAIN result[2].metadata = WrittenKeys \cup {"time_since_previous"}
    /\ Len(result[1].metadata.groups) = 1

\* template k comes before template j in sorted(templates, key=priority)
Precedes(k, j) ==
    \/ templates[k].priority < templates[j].priority
    \/ templates[k].priority = templates[j].priority /\ k < j

\* the positions of the templates the event of entry i can have been built
\* from: a matching template whose mapping succeeds, reached because the
\* mapping of every matching template before it failed
Triggers(i) ==
    LET matching == MatchingTemplates(i)
        failing  == {j \in matching : MappingFails(i, j)}
    IN  {k \in matching \ failing :
            \A j \in matching : Precedes(j, k) => j \in failing}

\* C12: after the sort and the enrichment every returned event still
\* belongs to its trigger: its timestamp, log_level and log_tag are those of
\* the record it refers to, and its event_type, template_name and
\* template_priority are the name and the priority of one template, the
\* one the event of that record was built from.
C12_KeepsAssociation ==
    pc = "done" =>
        \A n \in 1..Len(result) :
            LET i == result[n].log_entry
            IN  /\ i \in 1..Len(log_entries)
                /\ result[n].timestamp = log_entries[i].timestamp
                /\ result[n].metadata.log_level = log_entries[i].level
                /\ result[n].metadata.log_tag = log_entries[i].tag
                /\ \E k \in Triggers(i) :
                       /\ result[n].event_type = templates[k].name
                       /\ result[n].metadata.template_name = templates[k].name
                       /\ result[n].metadata.template_priority =
                              templates[k].priority

\* two events of different templates are returned in the order opposite to
\* that of their records
C12_Witness ==
    /\ pc = "done"
    /\ Len(result) = 2
    /\ result[1].log_entry = 2
    /\ result[2].log_entry = 1
    /\ result[1].event_type # result[2].event_type
    /\ result[1].timestamp # result[2].timestamp

\* the position of the template the n-th returned event was built from
TemplateOf(n) ==
    CHOOSE k \in Triggers(result[n].log_entry) :
        templates[k].name = result[n].event_type

\* the event field a slot of sequence_mapping fills
FieldOf(event, slot) ==
    CASE slot = "from" -> event.from_entity
      [] slot = "to" -> event.to_entity
      [] slot = "message" -> event.message

Slots == {"from", "to", "message"}

\* the mapping string of a slot after both substitution passes and the
\* sanitization
SlotResult(mapping, groups) ==
    Sanitize(ReplaceAliases(ReplaceGroups(mapping, groups, 1), groups))

\* the field of the n-th returned event for a slot that is present in the
\* sequence_mapping of its template: Unknown for an empty string and for a result
\* that is empty after substitution and sanitization, and never empty
PresentSlotOk(n, mapping, slot) ==
    LET field == FieldOf(result[n], slot)
    IN  /\ field # <<>>
        /\ slot \in DOMAIN mapping =>
               /\ mapping[slot] = <<>> => field = Unknown
               /\ SlotResult(mapping[slot], result[n].metadata.groups) = <<>>
                      => field = Unknown

\* C14 as stated: a slot that is absent from the mapping gives Unknown, for
\* each of from, to and message; an empty slot and a slot whose result is
\* empty give Unknown; no field is the empty string.
C14_ClaimedUnknownFallback ==
    pc = "done" =>
        \A n \in 1..Len(result) :
            LET mapping == templates[TemplateOf(n)].sequence_mapping
            IN  \A slot \in Slots :
                    /\ PresentSlotOk(n, mapping, slot)
                    /\ slot \notin DOMAIN mapping
                           => FieldOf(result[n], slot) = Unknown

\* C14: an absent from or to slot gives Unknown and an absent message slot
\* gives Event; an empty slot and a slot whose result is empty after
\* substitution and sanitization give Unknown; no field is the empty string.
C14_UnknownFallback ==
    pc = "done" =>
        \A n \in 1..Len(result) :
            LET mapping == templates[TemplateOf(n)].sequence_mapping
            IN  \A slot \in Slots :
                    /\ PresentSlotOk(n, mapping, slot)
                    /\ slot \notin DOMAIN mapping
                           => FieldOf(result[n], slot) =
                                  IF slot = "message"
                                  THEN <<"E", "v", "e", "n", "t">>
                                  ELSE Unknown

\* one returned event comes from a template with an empty from slot and no
\* to and message slots, another from a template whose message is empty
\* after sanitization
C14_Witness ==
    /\ pc = "done"
    /\ \E n, m \in 1..Len(result) :
          /\ result[n].event_type = "Low"
          /\ result[n].from_entity = Unknown
          /\ result[n].to_entity = Unknown
          /\ result[n].message = <<"E", "v", "e", "n", "t">>
          /\ result[m].event_type = "Same"
          /\ result[m].message = Unknown

\* a list of events without the time_since_previous entries
WithoutTiming(events) ==
    [n \in 1..Len(events) |->
        [events[n] EXCEPT !.metadata =
            [key \in DOMAIN @ \ {"time_since_previous"} |-> @[key]]]]

\* C17 as stated: a second call with the same records and templates returns
\* a list equal to that of the first call, whatever else has happened.
C17_ClaimedDeterminism ==
    (pc = "done" /\ previous.called) => result = previous.result

\* C17: a second call with the same records and templates returns a list
\* equal to that of the first call in everything but time_since_previous,
\* and equal in that too when both calls read the same current year.
C17_Determinism ==
    (pc = "done" /\ previous.called) =>
        /\ WithoutTiming(result) = WithoutTiming(previous.result)
        /\ now_year = previous.year => result = previous.result

\* a second call in the same year has returned two events, the second with
\* a time_since_previous, as the first call did
C17_Witness ==
    /\ pc = "done"
    /\ previous.called
    /\ now_year = previous.year
    /\ Len(result) = 2
    /\ "time_since_previous" \in DOMAIN result[2].metadata
    /\ result[1].from_entity # result[2].from_entity

\* C18: from the call to the return no step of generate_sequence_events
\* changes the caller's list of templates, in order or in contents, or any
\* of the log records.
C18_InputsUnchanged ==
    [][pc = "scan" => (templates' = templates /\ log_entries' = log_entries)]_vars

\* a call has returned two enriched events, built from a list of templates
\* that was not in priority order and still is not
C18_Witness ==
    /\ pc = "done"
    /\ Len(templates) = 2
    /\ templates[1].priority > templates[2].priority
    /\ Len(result) = 2
    /\ result[1].event_type = templates[2].name
    /\ "time_since_previous" \in DOMAIN result[2].metadata

\* s is a date and a time of day of the given year written in the
\* fixed-width format MM-DD HH:MM:SS.mmm
IsFixedWidthTimestamp(s, year) ==
    /\ Len(s) = 18
    /\ \A k \in {1, 2, 4, 5, 7, 8, 10, 11, 13, 14, 16, 17, 18} : s[k] \in DigitChars
    /\ s[3] = "-" /\ s[6] = " " /\ s[9] = ":" /\ s[12] = ":" /\ s[15] = "."
    /\ ToInt(SubSeq(s, 1, 2)) \in 1..12
    /\ ToInt(SubSeq(s, 4, 5)) \in 1..DaysInMonth(ToInt(SubSeq(s, 1, 2)), year)
    /\ ToInt(SubSeq(s, 7, 8)) <= 23
    /\ ToInt(SubSeq(s, 10, 11)) <= 59
    /\ ToInt(SubSeq(s, 13, 14)) <= 59

\* C27: when every timestamp of the returned events is a valid date-time in
\* the fixed-width format MM-DD HH:MM:SS.mmm, every time_since_previous
\* written by the enrichment is >= 0.
C27_NonNegativeDeltas ==
    (/\ pc = "done"
     /\ \A n \in 1..Len(result) : IsFixedWidthTimestamp(result[n].timestamp, now_year)) =>
        \A n \in 1..Len(result) :
            "time_since_previous" \in DOMAIN result[n].metadata =>
                result[n].metadata.time_since_previous.seconds >= 0

\* two records supplied latest first, both with fixed-width timestamps: the
\* second event returned comes from the first record and is half a second
\* after the first
C27_Witness ==
    /\ pc = "done"
    /\ Len(result) = 2
    /\ \A n \in 1..2 : IsFixedWidthTimestamp(result[n].timestamp, now_year)
    /\ result[1].log_entry = 2
    /\ "time_since_previous" \in DOMAIN result[2].metadata
    /\ result[2].metadata.time_since_previous = [seconds |-> 0, microseconds |-> 500000]

(***************************************************************************)
(* Properties of _map_entity.                                              *)
(***************************************************************************)
\* the words of s joined by underscores, a word being a maximal run of
\* characters of keep between whitespace, every other character dropped;
\* out is the text so far, pending says that whitespace came after it
RECURSIVE JoinWords(_, _, _, _)
JoinWords(s, keep, out, pending) ==
    IF s = <<>> THEN out
    ELSE IF Head(s) \in keep
         THEN JoinWords(Tail(s), keep,
                        (IF pending /\ out # <<>> THEN Append(out, "_") ELSE out)
                            \o <<Head(s)>>,
                        FALSE)
         ELSE IF Head(s) \in WhitespaceChars
              THEN JoinWords(Tail(s), keep, out, TRUE)
              ELSE JoinWords(Tail(s), keep, out, pending)

\* result or "Unknown"
OrUnknown(s) == IF s = <<>> THEN Unknown ELSE s

\* C13 as stated: sanitization keeps the alphanumeric characters and the
\* hyphens only, and joins the words by one underscore each, so that every
\* underscore of the result stands for a run of whitespace.
C13_ClaimedSanitization ==
    [][entity_pc = "sanitize" =>
          entity_result' =
              OrUnknown(JoinWords(entity_result,
                                  LetterChars \cup DigitChars \cup {"-"},
                                  <<>>, FALSE))]_vars

\* C13: sanitization keeps the word characters (alphanumeric and
\* underscore) and the hyphens, drops every other character that is not
\* whitespace, drops leading and trailing whitespace and turns every
\* remaining run of whitespace into exactly one underscore.
C13_Sanitization ==
    [][entity_pc = "sanitize" =>
          entity_result' =
              OrUnknown(JoinWords(entity_result, WordChars \cup {"-"},
                                  <<>>, FALSE))]_vars

\* 'a  b_' has become 'a_b_': one underscore for the whitespace run, one
\* kept from the mapping
C13_Witness ==
    /\ entity_pc = "returned"
    /\ entity_mapping = <<"a", " ", " ", "b", "_">>
    /\ entity_result = <<"a", "_", "b", "_">>

\* the mapping template s with every {groupN} written in it, N up to the
\* number of groups, replaced by the text of the N-th group, in one pass
\* from the left that never looks at the text it has put in
RECURSIVE SubstGroups(_, _)
SubstGroups(s, groups) ==
    IF s = <<>> THEN <<>>
    ELSE LET hits == {n \in 1..Len(groups) : MatchesAt(s, GroupPlaceholder(n), 1)}
         IN  IF hits = {}
             THEN <<Head(s)>> \o SubstGroups(Tail(s), groups)
             ELSE LET n == CHOOSE h \in hits : TRUE
                  IN  PyStr(groups[n])
                          \o SubstGroups(SubSeq(s, Len(GroupPlaceholder(n)) + 1,
                                                Len(s)), groups)

\* C15: after the {groupN} pass the result is the mapping template with
\* every {groupN}, N up to the number of captured groups, replaced by the
\* N-th group and every other {groupN} left as written.
C15_GroupPass ==
    entity_pc = "aliases" =>
        entity_result = SubstGroups(entity_mapping, entity_groups)

\* the four legacy aliases, in the order of the groups they stand for
Aliases ==
    <<<<"{", "t", "i", "m", "e", "s", "t", "a", "m", "p", "}">>,
      <<"{", "l", "e", "v", "e", "l", "}">>,
      <<"{", "t", "a", "g", "}">>,
      <<"{", "m", "e", "s", "s", "a", "g", "e", "}">>>>

\* the text s with every alias written in it replaced by the text of its
\* group, or by the empty string when the group does not exist, in one pass
\* from the left
RECURSIVE SubstAliases(_, _)
SubstAliases(s, groups) ==
    IF s = <<>> THEN <<>>
    ELSE LET hits == {n \in 1..4 : MatchesAt(s, Aliases[n], 1)}
         IN  IF hits = {}
             THEN <<Head(s)>> \o SubstAliases(Tail(s), groups)
             ELSE LET n == CHOOSE h \in hits : TRUE
                  IN  (IF n <= Len(groups) THEN PyStr(groups[n]) ELSE <<>>)
                          \o SubstAliases(SubSeq(s, Len(Aliases[n]) + 1, Len(s)),
                                           groups)

\* C16: the alias pass never raises, and after it the result is the text
\* left by the {groupN} pass with {timestamp}, {level}, {tag} and {message}
\* replaced by the groups 1, 2, 3 and 4, or by the empty string where the
\* pattern captured fewer groups.
C16_AliasPass ==
    /\ entity_pc # "raised"
    /\ entity_pc = "sanitize" =>
           entity_result =
               SubstAliases(ReplaceGroups(entity_mapping, entity_groups, 1),
                            entity_groups)

\* the mapping template s with every placeholder written in it replaced at
\* once: {groupN}, N up to the number of groups, by the N-th group, an alias
\* by its group or by the empty string; text put in is not looked at again
RECURSIVE SubstPlaceholders(_, _)
SubstPlaceholders(s, groups) ==
    IF s = <<>> THEN <<>>
    ELSE LET group_hits == {n \in 1..Len(groups) : MatchesAt(s, GroupPlaceholder(n), 1)}
             alias_hits == {n \in 1..4 : MatchesAt(s, Aliases[n], 1)}
         IN  IF group_hits # {}
             THEN LET n == CHOOSE h \in group_hits : TRUE
                  IN  PyStr(groups[n])
                          \o SubstPlaceholders(SubSeq(s, Len(GroupPlaceholder(n)) + 1,
                                                      Len(s)), groups)
             ELSE IF alias_hits # {}
             THEN LET n == CHOOSE h \in alias_hits : TRUE
                  IN  (IF n <= Len(groups) THEN PyStr(groups[n]) ELSE <<>>)
                          \o SubstPlaceholders(SubSeq(s, Len(Aliases[n]) + 1, Len(s)),
                                                groups)
             ELSE <<Head(s)>> \o SubstPlaceholders(Tail(s), groups)

\* C26: substitution acts only on the placeholders written in the mapping
\* template: the result before sanitization is the simultaneous
\* substitution of the template's own placeholders, and placeholder text
\* inside a group value is not substituted.
C26_SimultaneousSubstitution ==
    entity_pc = "sanitize" =>
        entity_result = SubstPlaceholders(entity_mapping, entity_groups)

\* C29: the string r that _map_entity returns is non-empty, has no
\* whitespace and no character other than letters, digits, underscore and
\* hyphen, and _map_entity(r, no groups) returns r again.
C29_SanitizationIdempotent ==
    entity_pc = "returned" =>
        /\ entity_result # <<>>
        /\ \A k \in 1..Len(entity_result) :
              entity_result[k] \in LetterChars \cup DigitChars \cup {"_", "-"}
        /\ map_entity(entity_result, <<>>) = [raised |-> FALSE, value |-> entity_result]

\* 'a  b!' has been returned as 'a_b'
C29_Witness ==
    /\ entity_pc = "returned"
    /\ entity_mapping = <<"a", " ", " ", "b", "!">>
    /\ entity_result = <<"a", "_", "b">>

\* re.match(r'^[a-zA-Z_][a-zA-Z0-9_]*$', s) of validate_business_rules
IsMermaidIdentifier(s) ==
    /\ s # <<>>
    /\ s[1] \in LetterChars \cup {"_"}
    /\ \A k \in 1..Len(s) : s[k] \in LetterChars \cup DigitChars \cup {"_"}

\* C19: every string _map_entity returns, which is what from_entity and
\* to_entity of an event are, is a valid Mermaid identifier.
C19_MermaidIdentifiers ==
    entity_pc = "returned" => IsMermaidIdentifier(entity_result)

(***************************************************************************)
(* Properties of load_template_configuration.                              *)
(***************************************************************************)
\* the file has no 'templates' array: no 'templates' member, or one that is
\* not an array
LacksTemplatesArray(file) ==
    file.exists /\ file.valid_json /\ (~file.has_templates \/ file.kind # "list")

\* C20: load_template_configuration never raises; it returns the five
\* built-in templates of priorities 1 to 5 whenever the file is missing, is
\* not valid JSON, has no 'templates' array or an exception occurs while
\* loading; and self.templates is the list it returns.
C20_FallsBackToDefaults ==
    /\ loader_pc \in {"start", "returned"}
    /\ Len(DefaultTemplates) = 5
    /\ \A k \in 1..5 : DefaultTemplates[k].priority = k
    /\ loader_pc = "returned" =>
           /\ self_templates = returned
           /\ (\/ ~template_file.exists
               \/ ~template_file.valid_json
               \/ LacksTemplatesArray(template_file)
               \/ LoadRaises(template_file))
                  => returned = DefaultTemplates

\* an element of the 'templates' array that passes the validation of
\* _validate_template_fields and Template.from_dict
IsValidEntry(entry) ==
    /\ entry.is_dict
    /\ AllFields \subseteq entry.fields
    /\ entry.pattern # "("

\* the templates of priority p in a list, in the order of the list
OfPriority(tpls, p) == SelectSeq(tpls, LAMBDA t : t.priority = p)

\* C21: of a file with a 'templates' array the call returns the templates
\* of exactly the entries that pass validation, whatever the other entries
\* are: each with a pattern that compiles, in ascending priority order, the
\* templates of one priority in the order of the file.
C21_ValidEntriesLoaded ==
    (loader_pc = "returned" /\ template_file.has_templates
                            /\ template_file.kind = "list") =>
        LET valid == SelectSeq(template_file.items, IsValidEntry)
        IN  /\ \A k \in 1..Len(returned) : returned[k].pattern # "("
            /\ \A k \in 1..(Len(returned) - 1) :
                   returned[k].priority <= returned[k + 1].priority
            /\ Len(returned) = Len(valid)
            /\ \A p \in {valid[k].priority : k \in 1..Len(valid)} :
                   [k \in 1..Len(OfPriority(returned, p)) |->
                        OfPriority(returned, p)[k].name]
                     = [k \in 1..Len(OfPriority(valid, p)) |->
                            OfPriority(valid, p)[k].name]

(***************************************************************************)
(* Properties of the ReadLogModule.                                        *)
(***************************************************************************)
\* the levels from the least to the most severe
Severity == <<"V", "D", "I", "W", "E", "F">>

Rank(level) == CHOOSE n \in 1..6 : Severity[n] = level

\* the characters c and d are the same letter in either case, or the same
\* character
SameIgnoringCase(c, d) ==
    \/ c = d
    \/ \E n \in 1..26 : {c, d} = {UpperCase[n], LowerCase[n]}

\* the keyword occurs in the message when case is ignored
OccursIgnoringCase(message, keyword) ==
    \E p \in 0..(Len(message) - Len(keyword)) :
        \A k \in 1..Len(keyword) : SameIgnoringCase(message[p + k], keyword[k])

\* the entry satisfies every criterion that was provided; None and the
\* empty string are criteria not provided
Satisfies(entry, criteria) ==
    /\ (~criteria.keyword.none /\ criteria.keyword.v # <<>>) =>
           OccursIgnoringCase(entry.message, criteria.keyword.v)
    /\ (~criteria.tag.none /\ criteria.tag.v # "") => entry.tag = criteria.tag.v
    /\ ~criteria.level.none => Rank(entry.level) >= Rank(criteria.level.v)

\* C22: search_and_filter_logs returns, in input order, exactly the entries
\* that satisfy all the criteria provided: keyword in the message ignoring
\* case, tag equal, level at least as severe; all entries when no criterion
\* is provided.
C22_FilteredEntries ==
    search_pc = "returned" =>
        filtered_entries =
            SelectSeq(search_entries, LAMBDA entry : Satisfies(entry, search_criteria))

\* a search by keyword, tag and level has kept the second of two entries
\* and dropped the first, which has the keyword and the tag but a lower level
C22_Witness ==
    /\ search_pc = "returned"
    /\ ~search_criteria.keyword.none /\ search_criteria.keyword.v = <<"A", "M">>
    /\ ~search_criteria.tag.none /\ search_criteria.tag.v = "Cam"
    /\ ~search_criteria.level.none /\ search_criteria.level.v = "W"
    /\ Len(search_entries) = 2
    /\ search_entries[1].level = "I"
    /\ filtered_entries = <<search_entries[2]>>

\* the regular expressions that compile
Compilable == NewPatterns \ {"(", "[a", "*"}

\* C23: update_log_pattern(p) returns False and leaves log_pattern and
\* compiled_pattern as they were when p does not compile; it returns True
\* and replaces both by p and its compilation when p compiles, whether or
\* not p matches the sample line; so compiled_pattern is always the
\* compilation of the current log_pattern.
C23_PatternUpdates ==
    /\ compiled_pattern = [pattern |-> log_pattern]
    /\ \A k \in 1..Len(pattern_updates) :
          LET u == pattern_updates[k]
          IN  IF u.new_pattern \in Compilable
              THEN /\ u.returned
                   /\ u.after = [log_pattern |-> u.new_pattern,
                                 compiled_pattern |-> [pattern |-> u.new_pattern]]
              ELSE /\ ~u.returned
                   /\ u.after = u.before

\* a pattern that does not match the sample line was installed, and a
\* later update with a pattern that does not compile left it in place
C23_Witness ==
    /\ Len(pattern_updates) = 2
    /\ pattern_updates[1].new_pattern = "^x$"
    /\ pattern_updates[1].before.log_pattern = DefaultAndroidPattern
    /\ pattern_updates[2].new_pattern = "("
    /\ log_pattern = "^x$"

(***************************************************************************)
(* Properties of the InputModule.                                          *)
(***************************************************************************)
\* the extension is .txt, .log or .logcat, in either case of the letters
SupportedExtension(suffix) ==
    suffix \in {".txt", ".log", ".logcat", ".TXT", ".Txt", ".LOG", ".LOGCAT"}

\* C24: read_log_file raises FileNotFoundError when the path is missing or
\* not a file, else PermissionError when the file cannot be opened for
\* reading, else ValueError when the extension is not supported, returns no
\* lines in these cases, and reads the content only when all three checks
\* pass.
C24_PreconditionErrors ==
    log_outcome.called =>
        LET not_found == log_file.kind # "file"
            no_permission == ~log_file.readable
            unsupported == ~SupportedExtension(log_file.suffix)
        IN  /\ not_found => log_outcome.raised = "FileNotFoundError"
            /\ (~not_found /\ no_permission) => log_outcome.raised = "PermissionError"
            /\ (~not_found /\ ~no_permission /\ unsupported) =>
                   log_outcome.raised = "ValueError"
            /\ (not_found \/ no_permission \/ unsupported) =>
                   log_outcome.lines = <<>> /\ ~log_outcome.content_read
            /\ log_outcome.content_read =>
                   ~not_found /\ ~no_permission /\ ~unsupported

\* a file that can be neither opened nor has a supported extension was
\* refused for its permissions
C24_Witness ==
    /\ log_outcome.called
    /\ log_file.kind = "file"
    /\ ~log_file.readable
    /\ log_file.suffix = ".csv"
    /\ log_outcome.raised = "PermissionError"

\* C25: for an existing, readable, empty file with a supported extension
\* validate_business_rules reports valid with the warning 'File is empty'
\* and read_log_file returns an empty list without raising (BR3).
C25_EmptyFileWarning ==
    (/\ log_file.kind = "file"
     /\ log_file.readable
     /\ log_file.content = <<>>
     /\ SupportedExtension(log_file.suffix)) =>
        /\ validation.called =>
               validation.valid /\ validation.warnings = <<"File is empty">>
        /\ log_outcome.called =>
               log_outcome.raised = "" /\ log_outcome.lines = <<>>

\* C30: _read_file_chunked ends as _read_file_normal does on the same file,
\* whatever the content and the chunk size: the same list of lines.
C30_ChunkedEqualsNormal ==
    (normal_outcome.called /\ chunked_outcome.called) =>
        /\ chunked_outcome.raised = normal_outcome.raised
        /\ chunked_outcome.lines = normal_outcome.lines

(***************************************************************************)
(* Properties of export_sequence_diagrams.                                 *)
(***************************************************************************)
\* the line where the diagram that holds line i of the content begins
DiagramStart(content, i) ==
    CHOOSE j \in 1..i :
        /\ content[j].kind = "open"
        /\ \A k \in (j + 1)..i : content[k].kind # "open"

\* the names the diagram holding line i declares
Declared(content, i) ==
    {content[k].from : k \in {k \in DiagramStart(content, i)..Len(content) :
        /\ content[k].kind = "participant"
        /\ \A m \in DiagramStart(content, i)..k : content[m].kind # "close"}}

AllDeclared(content) ==
    \A i \in 1..Len(content) :
        content[i].kind = "message" =>
            {content[i].from, content[i].to} \subseteq Declared(content, i)

\* C28: in the overview and the detailed diagram every sender and receiver
\* of a message line is declared in a participant line of the same diagram.
C28_ParticipantsDeclared ==
    diagram_pc = "returned" =>
        AllDeclared(overview_content) /\ AllDeclared(detailed_content)

=============================================================================
